---- MODULE Spec2Model ----
(***************************************************************************)
(* The Unity Catalog batch indexer (UnityCatalogIndexer, index.js): one    *)
(* run creates a job row, clears the Solr index, walks the catalog tree    *)
(* (catalogs, schemas, volumes and their directory trees, tables and their *)
(* columns), writes the documents in batches of 100 and closes the job     *)
(* row.  Strings are TLA+ strings, handled character by character the way  *)
(* the JavaScript code handles them.                                       *)
(***************************************************************************)
EXTENDS Integers, Sequences, FiniteSets, TLC

(***************************************************************************)
(* Bounds of the model.                                                    *)
(***************************************************************************)
\* Largest number of columns of the one table of the "wide" catalog.
MaxCols == 199
\* Number of run slots (processes that the scheduler may invoke).
NumRuns == 2

RunIds == 1..NumRuns

(***************************************************************************)
(* Program constants.                                                      *)
(***************************************************************************)
\* fetchVolumeFilesRecursive(..., maxDepth = 10, currentDepth = 0)
MaxDepth == 10
\* const batchSize = 100
batchSize == 100
\* const excludedCatalogs = ['system', 'hive_metastore']
excludedCatalogs == {"system", "hive_metastore"}

NULL == "NULL"

(***************************************************************************)
(* String helpers: what the JavaScript string operations do.               *)
(***************************************************************************)
CharAt(s, i) == SubSeq(s, i, i)

\* The characters the regular expression /[^a-zA-Z0-9_\-]/g leaves alone.
SafeChars ==
  {CharAt("abcdefghijklmnopqrstuvwxyzABCDEFGHIJKLMNOPQRSTUVWXYZ0123456789_-", i) :
     i \in 1..64}

\* The characters of s from position i on, each one outside SafeChars
\* replaced by '_'.
RECURSIVE SanitizeFrom(_, _)
SanitizeFrom(s, i) ==
  IF i > Len(s) THEN ""
  ELSE (IF CharAt(s, i) \in SafeChars THEN CharAt(s, i) ELSE "_")
         \o SanitizeFrom(s, i + 1)

\* s.replace(/[^a-zA-Z0-9_\-]/g, '_')
Sanitize(s) == SanitizeFrom(s, 1)

\* Position of the first occurrence of pat in s at or after i, 0 if none.
IndexOf(s, pat, i) ==
  LET hits == {k \in i..(Len(s) - Len(pat) + 1) : SubSeq(s, k, k + Len(pat) - 1) = pat} IN
    IF hits = {} THEN 0 ELSE CHOOSE k \in hits : \A m \in hits : k <= m

\* s.replace(pat, '') with a string pattern: removes the first occurrence.
RemoveFirst(s, pat) ==
  LET i == IndexOf(s, pat, 1) IN
    IF i = 0 THEN s
    ELSE SubSeq(s, 1, i - 1) \o SubSeq(s, i + Len(pat), Len(s))

\* s.endsWith('/')
EndsWithSlash(s) == Len(s) > 0 /\ CharAt(s, Len(s)) = "/"

\* Decimal rendering of a natural number (names of generated columns).
RECURSIVE Decimal(_)
Decimal(n) ==
  IF n < 10 THEN CharAt("0123456789", n + 1)
  ELSE Decimal(n \div 10) \o CharAt("0123456789", (n % 10) + 1)

\* Math.ceil(n / d)
Ceil(n, d) == (n + d - 1) \div d

Min(a, b) == IF a < b THEN a ELSE b

(***************************************************************************)
(* Timestamps.  A value of a response field is a number, a string, or      *)
(* undefined (the field is absent).                                        *)
(***************************************************************************)
JsNumber(n) == [type |-> "number", value |-> n]
JsString(str) == [type |-> "string", value |-> str]
JsUndefined == [type |-> "undefined"]

\* !value for these values: undefined, 0 and '' are falsy.
Falsy(v) ==
  \/ v.type = "undefined"
  \/ v.type = "number" /\ v.value = 0
  \/ v.type = "string" /\ v.value = ""

\* n in decimal, padded with zeros on the left to width w.
RECURSIVE Pad(_, _)
Pad(n, w) == IF Len(Decimal(n)) >= w THEN Decimal(n) ELSE "0" \o Pad(n, w - 1)

\* new Date(ms).toISOString() for ms >= 0: YYYY-MM-DDTHH:mm:ss.sssZ of the
\* instant ms milliseconds after 1970-01-01T00:00:00Z (proleptic Gregorian
\* calendar, UTC).
ToISOString(ms) ==
  LET days == ms \div 86400000
      rest == ms % 86400000
      z == days + 719468
      era == z \div 146097
      doe == z % 146097
      yoe == (doe - doe \div 1460 + doe \div 36524 - doe \div 146096) \div 365
      doy == doe - (365 * yoe + yoe \div 4 - yoe \div 100)
      mp == (5 * doy + 2) \div 153
      d == doy - (153 * mp + 2) \div 5 + 1
      m == IF mp < 10 THEN mp + 3 ELSE mp - 9
      y == yoe + era * 400 + (IF m <= 2 THEN 1 ELSE 0)
  IN Pad(y, 4) \o "-" \o Pad(m, 2) \o "-" \o Pad(d, 2) \o "T"
       \o Pad(rest \div 3600000, 2) \o ":" \o Pad((rest % 3600000) \div 60000, 2)
       \o ":" \o Pad((rest % 60000) \div 1000, 2) \o "." \o Pad(rest % 1000, 3) \o "Z"

\* new Date().toISOString(): the time of the call.
Now == "now"

\* formatTimestamp(timestamp)
FormatTimestamp(timestamp) ==
  IF Falsy(timestamp) THEN Now
  ELSE IF timestamp.type = "number" THEN ToISOString(timestamp.value)
  ELSE IF timestamp.type = "string" THEN timestamp.value
  ELSE Now

(***************************************************************************)
(* The remote catalog (the Databricks workspace the run reads).  A world   *)
(* fixes what each listing endpoint answers when the call succeeds; which  *)
(* calls fail is chosen call by call in the actions.                       *)
(*   basic   : the catalogs system, sales and hive_metastore; sales has    *)
(*             information_schema and raw; raw has the volume landing      *)
(*             (a.csv of size 120 and the directory sub, listed without a  *)
(*             size and without a modification time, with b.txt) and       *)
(*             the tables orders and customers (customers has a column     *)
(*             whose name, e mail, holds a space);                         *)
(*   collide : one volume holding the directory a with the file b, and     *)
(*             the file a_b next to a; the modification time of a is the   *)
(*             number 0, that of a_b the empty string;                     *)
(*   deep    : one volume whose every directory holds a file f and a       *)
(*             directory d (a tree without bottom), and one table;         *)
(*   wide    : one table with ncols columns c0, c1, ...;                   *)
(*   solo    : one volume holding the one file f, and no table;            *)
(*   empty   : only an excluded catalog.                                   *)
(***************************************************************************)
Worlds ==
  {[kind |-> k, ncols |-> 0] : k \in {"basic", "collide", "deep", "solo", "empty"}}
    \cup {[kind |-> "wide", ncols |-> n] : n \in 0..MaxCols}

\* GET catalogs
Catalogs(w) ==
  CASE w.kind = "basic" -> <<"system", "sales", "hive_metastore">>
    [] w.kind = "empty" -> <<"hive_metastore">>
    [] OTHER -> <<"c">>

\* GET schemas?catalog_name=c
Schemas(w, c) ==
  CASE w.kind = "basic" /\ c = "sales" -> <<"information_schema", "raw">>
    [] w.kind = "basic" /\ c = "system" -> <<"information_schema", "access">>
    [] w.kind \in {"collide", "deep", "wide", "solo"} /\ c = "c" -> <<"s">>
    [] OTHER -> <<>>

\* GET volumes?catalog_name=c&schema_name=s
Volumes(w, c, s) ==
  CASE w.kind = "basic" /\ c = "sales" /\ s = "raw" -> <<"landing">>
    [] w.kind \in {"collide", "deep", "solo"} /\ c = "c" /\ s = "s" -> <<"v">>
    [] OTHER -> <<>>

\* GET tables?catalog_name=c&schema_name=s
Tables(w, c, s) ==
  CASE w.kind = "basic" /\ c = "sales" /\ s = "raw" -> <<"orders", "customers">>
    [] w.kind = "basic" /\ c = "sales" /\ s = "information_schema" -> <<"tables">>
    [] w.kind \in {"deep", "wide"} /\ c = "c" /\ s = "s" -> <<"t">>
    [] OTHER -> <<>>

\* GET tables/c.s.t/columns
Columns(w, c, s, t) ==
  CASE w.kind = "basic" /\ t = "orders" -> <<"id", "total">>
    [] w.kind = "basic" /\ t = "customers" -> <<"id", "e mail">>
    [] w.kind = "deep" /\ t = "t" -> <<"x">>
    [] w.kind = "wide" /\ t = "t" -> [i \in 1..w.ncols |-> "c" \o Decimal(i - 1)]
    [] OTHER -> <<>>

Entry(name, path, isDir, size) ==
  [name |-> name, path |-> path, is_directory |-> isDir, size |-> size]
\* An entry that carries no size (the listing gives none for it).
EntryNoSize(name, path, isDir) ==
  [name |-> name, path |-> path, is_directory |-> isDir]
\* The entry with its modification_time.
WithTime(entry, t) == entry @@ ("modification_time" :> t)
\* file.modification_time
ModificationTime(file) ==
  IF "modification_time" \in DOMAIN file THEN file.modification_time ELSE JsUndefined

\* GET /api/2.0/fs/directories<path>: the contents of one directory.
DirectoryContents(w, path) ==
  CASE w.kind = "basic" /\ path = "/Volumes/sales/raw/landing/" ->
         << WithTime(Entry("a.csv", "/Volumes/sales/raw/landing/a.csv", FALSE, 120),
                     JsNumber(90061001)),
            EntryNoSize("sub", "/Volumes/sales/raw/landing/sub", TRUE) >>
    [] w.kind = "basic" /\ path = "/Volumes/sales/raw/landing/sub/" ->
         << WithTime(Entry("b.txt", "/Volumes/sales/raw/landing/sub/b.txt", FALSE, 7),
                     JsString("2024-05-01T10:00:00Z")) >>
    [] w.kind = "collide" /\ path = "/Volumes/c/s/v/" ->
         << WithTime(Entry("a", "/Volumes/c/s/v/a", TRUE, 0), JsNumber(0)),
            WithTime(Entry("a_b", "/Volumes/c/s/v/a_b", FALSE, 5), JsString("")) >>
    [] w.kind = "collide" /\ path = "/Volumes/c/s/v/a/" ->
         << WithTime(Entry("b", "/Volumes/c/s/v/a/b", FALSE, 3), JsNumber(86400000)) >>
    [] w.kind = "solo" /\ path = "/Volumes/c/s/v/" ->
         << Entry("f", "/Volumes/c/s/v/f", FALSE, 9) >>
    [] w.kind = "deep" /\ IndexOf(path, "/Volumes/c/s/v/", 1) = 1 ->
         << Entry("f", path \o "f", FALSE, 1),
            Entry("d", path \o "d", TRUE, 0) >>
    [] OTHER -> <<>>

(***************************************************************************)
(* The documents.  Fields the code copies unchanged from the response      *)
(* (comment, owner, tags, storage fields), and the timestamps of the       *)
(* documents other than File and Directory, are left out.                  *)
(***************************************************************************)
\* documents.push({ id: `catalog_${catalog.name}`, ... })
CatalogDoc(c) ==
  [id |-> "catalog_" \o c, name |-> c, full_name |-> c, type |-> "catalog",
   catalog_name |-> c]

\* documents.push({ id: `schema_${catalog.name}_${schema.name}`, ... })
SchemaDoc(c, s) ==
  [id |-> "schema_" \o c \o "_" \o s, name |-> s, full_name |-> c \o "." \o s,
   type |-> "schema", catalog_name |-> c, schema_name |-> s]

\* documents.push({ id: `volume_${catalog.name}_${schema.name}_${volume.name}`, ... })
VolumeDoc(c, s, v) ==
  [id |-> "volume_" \o c \o "_" \o s \o "_" \o v, name |-> v,
   full_name |-> c \o "." \o s \o "." \o v, type |-> "volume",
   catalog_name |-> c, schema_name |-> s, volume_name |-> v]

\* documents.push({ id: `table_${catalog.name}_${schema.name}_${table.name}`, ... })
TableDoc(c, s, t) ==
  [id |-> "table_" \o c \o "_" \o s \o "_" \o t, name |-> t,
   full_name |-> c \o "." \o s \o "." \o t, type |-> "table",
   catalog_name |-> c, schema_name |-> s, table_name |-> t]

\* documents.push({ id: `column_${...}_${table.name}_${column.name}`, ... })
ColumnDoc(c, s, t, col) ==
  [id |-> "column_" \o c \o "_" \o s \o "_" \o t \o "_" \o col, name |-> col,
   full_name |-> c \o "." \o s \o "." \o t \o "." \o col, type |-> "column",
   catalog_name |-> c, schema_name |-> s, table_name |-> t, column_name |-> col]

\* `/Volumes/${catalog.name}/${schema.name}/${volume.name}/`
VolumePath(c, s, v) == "/Volumes/" \o c \o "/" \o s \o "/" \o v \o "/"

\* filePath.replace(`/Volumes/${catalog}/${schema}/${volume}/`, '')
RelativePath(c, s, v, filePath) == RemoveFirst(filePath, VolumePath(c, s, v))

\* `file_${catalog}_${schema}_${volume}_${relativePath}`.replace(/[^a-zA-Z0-9_\-]/g, '_')
FileId(c, s, v, relativePath) ==
  Sanitize("file_" \o c \o "_" \o s \o "_" \o v \o "_" \o relativePath)

\* Mutant of SizeOrZero: the size of the entry is not copied.
SizeOrZeroDropsSize(file) == 0

\* file.size || 0
SizeOrZero(file) ==
  IF "size" \in DOMAIN file /\ file.size # 0 THEN file.size ELSE 0

\* The document pushed for one entry of a directory listing.
FileDoc(c, s, v, file) ==
  LET relativePath == RelativePath(c, s, v, file.path) IN
    [id |-> FileId(c, s, v, relativePath), name |-> file.name,
     full_name |-> c \o "." \o s \o "." \o v \o "/" \o relativePath,
     type |-> IF file.is_directory THEN "directory" ELSE "file",
     catalog_name |-> c, schema_name |-> s, volume_name |-> v,
     file_name |-> file.name, file_path |-> relativePath,
     file_size |-> SizeOrZero(file), is_directory |-> file.is_directory,
     created_at |-> FormatTimestamp(ModificationTime(file)),
     updated_at |-> FormatTimestamp(ModificationTime(file)),
     last_modified |-> FormatTimestamp(ModificationTime(file))]

\* const subPath = filePath.endsWith('/') ? filePath : `${filePath}/`
SubPath(filePath) == IF EndsWithSlash(filePath) THEN filePath ELSE filePath \o "/"

(***************************************************************************)
(* State.                                                                  *)
(***************************************************************************)
VARIABLES
  world,      \* the remote catalog of this behaviour (never changes)
  scheduled,  \* the run slots the external scheduler invokes
  jobs,       \* table indexing_jobs: the sequence of its rows, by id
  index,      \* the Solr core: the set of documents it holds
  pc,         \* pc[r]: where run r stands in run()
  jobId,      \* jobId[r]: the local jobId of run(), 0 while undefined
  documents,  \* documents[r]: the array built by syncCatalogs()
  stack,      \* stack[r]: the open loops and calls of the walk, innermost last
  batchI,     \* batchI[r]: the loop variable i of the batch loop
  error,      \* error[r]: message of the error caught by run(), NULL if none
  calls,      \* history: calls[r], the remote GET requests issued, in order
  logs,       \* history: logs[r], the console lines of the walk's branches
  closes,     \* history: closes[r], the updateIndexingJob calls made
  sent,       \* history: sent[r], the batches the index accepted
  jobHist     \* history: jobHist[id], every status the row has had, in order

vars == << world, scheduled, jobs, index, pc, jobId, documents, stack, batchI,
           error, calls, logs, closes, sent, jobHist >>

\* Outcomes of a GET against Databricks (fetchFromDatabricks, fetchVolumeFiles).
\* "error" stands for every rejection other than a 404 response (401, 403,
\* 500, a network error): the code tells only 404 apart.
HttpOutcomes == {"ok", "404", "error"}
\* Outcomes of a POST against Solr.
SolrOutcomes == {"ok", "error"}
\* Outcomes of one job-table operation: mysql.createConnection fails, or
\* connection.execute fails, or both succeed.
DbOutcomes == {"ok", "connect_error", "execute_error"}

\* error.message of each failure.
DbConnectMessage == "connect ECONNREFUSED mysql"
DbExecuteMessage == "ER_EXECUTE mysql"
ClearMessage == "solr delete failed"
CatalogsMessage(o) == "catalogs request failed: " \o o
BatchMessage == "solr update failed"

(***************************************************************************)
(* The job table.                                                          *)
(***************************************************************************)
\* Mutant of NewJobRow: the INSERT leaves status out, so the row takes the
\* column default 'pending'.
NewJobRowPending(id) ==
  [id |-> id, job_type |-> "unity_catalog_sync", status |-> "pending",
   started_at |-> "now", completed_at |-> NULL, records_processed |-> 0,
   error_message |-> NULL]

\* INSERT INTO indexing_jobs (job_type, status, started_at) VALUES
\*   ('unity_catalog_sync', 'running', new Date()); the other columns take
\* the defaults of init.sql.
NewJobRow(id) ==
  [id |-> id, job_type |-> "unity_catalog_sync", status |-> "running",
   started_at |-> "now", completed_at |-> NULL, records_processed |-> 0,
   error_message |-> NULL]

\* Mutant of UpdateRows: the UPDATE does not set records_processed.
UpdateRowsKeepCount(tbl, id, status, recordsProcessed, errorMessage) ==
  [k \in DOMAIN tbl |->
     IF tbl[k].id = id
       THEN [tbl[k] EXCEPT !.status = status, !.completed_at = "now",
                           !.error_message = errorMessage]
       ELSE tbl[k]]

\* Mutant of UpdateRows: the UPDATE selects the open rows,
\* WHERE status = 'running', instead of the row of the given id.
UpdateRowsAllRunning(tbl, id, status, recordsProcessed, errorMessage) ==
  [k \in DOMAIN tbl |->
     IF tbl[k].status = "running"
       THEN [tbl[k] EXCEPT !.status = status, !.completed_at = "now",
                           !.records_processed = recordsProcessed,
                           !.error_message = errorMessage]
       ELSE tbl[k]]

\* UPDATE indexing_jobs SET status = ?, completed_at = ?, records_processed = ?,
\*   error_message = ? WHERE id = ?
UpdateRows(tbl, id, status, recordsProcessed, errorMessage) ==
  [k \in DOMAIN tbl |->
     IF tbl[k].id = id
       THEN [tbl[k] EXCEPT !.status = status, !.completed_at = "now",
                           !.records_processed = recordsProcessed,
                           !.error_message = errorMessage]
       ELSE tbl[k]]

\* updateIndexingJob rejects only when mysql.createConnection does (it is
\* called before the try); an error of connection.execute is logged and
\* swallowed.  connection.end() of mysql2/promise always resolves.
UpdateThrows(outcome) == outcome = "connect_error"

\* updateIndexingJob(jobId, status, recordsProcessed, errorMessage) by run r.
UpdateIndexingJob(r, status, recordsProcessed, errorMessage, outcome) ==
  /\ closes' = [closes EXCEPT ![r] =
       Append(@, [jobId |-> jobId[r], status |-> status,
                  records_processed |-> recordsProcessed,
                  error_message |-> errorMessage, outcome |-> outcome])]
  /\ IF outcome = "ok"
       THEN /\ jobs' = UpdateRows(jobs, jobId[r], status, recordsProcessed, errorMessage)
            /\ jobHist' = [k \in DOMAIN jobHist |->
                 IF jobs[k].id = jobId[r] THEN Append(jobHist[k], status)
                                         ELSE jobHist[k]]
       ELSE UNCHANGED << jobs, jobHist >>

\* A row left by an earlier run, and the document that run indexed.
OldJobRow ==
  [id |-> 1, job_type |-> "unity_catalog_sync", status |-> "completed",
   started_at |-> "now", completed_at |-> "now", records_processed |-> 1,
   error_message |-> NULL]
OldDoc == CatalogDoc("old")

(***************************************************************************)
(* Initial state: no run invoked yet; the job table and the index hold     *)
(* what an earlier run left.                                               *)
(***************************************************************************)
InitRuns ==
  /\ jobs = << OldJobRow >>
  /\ jobHist = << <<"running", "completed">> >>
  /\ index = {OldDoc}
  /\ pc = [r \in RunIds |-> "idle"]
  /\ jobId = [r \in RunIds |-> 0]
  /\ documents = [r \in RunIds |-> <<>>]
  /\ stack = [r \in RunIds |-> <<>>]
  /\ batchI = [r \in RunIds |-> 0]
  /\ error = [r \in RunIds |-> NULL]
  /\ calls = [r \in RunIds |-> <<>>]
  /\ logs = [r \in RunIds |-> <<>>]
  /\ closes = [r \in RunIds |-> <<>>]
  /\ sent = [r \in RunIds |-> <<>>]

Init ==
  /\ world \in Worlds
  /\ scheduled = {1}
  /\ InitRuns

(***************************************************************************)
(* run(): the steps outside the walk.                                      *)
(***************************************************************************)
Goto(r, label) == pc' = [pc EXCEPT ![r] = label]

\* The run's catch block is entered with this error.
Throw(r, message) ==
  /\ error' = [error EXCEPT ![r] = message]
  /\ Goto(r, "catch")

\* indexer.run(): the scheduler starts the process.
Start(r) ==
  /\ r \in scheduled
  /\ pc[r] = "idle"
  /\ Goto(r, "create")
  /\ UNCHANGED << world, scheduled, jobs, index, jobId, documents, stack,
                  batchI, error, calls, logs, closes, sent, jobHist >>

\* Mutant of CreateIndexingJob: when execute rejects, the row has been
\* inserted all the same.
CreateIndexingJobLeavesRow(r) ==
  /\ pc[r] = "create"
  /\ \E outcome \in DbOutcomes :
       /\ IF outcome = "connect_error"
            THEN UNCHANGED << jobs, jobHist >>
            ELSE /\ jobs' = Append(jobs, NewJobRow(Len(jobs) + 1))
                 /\ jobHist' = Append(jobHist, << NewJobRow(Len(jobs) + 1).status >>)
       /\ IF outcome = "ok"
            THEN /\ jobId' = [jobId EXCEPT ![r] = Len(jobs) + 1]
                 /\ Goto(r, "clear")
                 /\ UNCHANGED error
            ELSE /\ Throw(r, IF outcome = "connect_error" THEN DbConnectMessage
                                                          ELSE DbExecuteMessage)
                 /\ UNCHANGED jobId
  /\ UNCHANGED << world, scheduled, index, documents, stack, batchI, calls,
                  logs, closes, sent >>

\* jobId = await this.createIndexingJob()
CreateIndexingJob(r) ==
  /\ pc[r] = "create"
  /\ \E outcome \in DbOutcomes :
       IF outcome = "ok"
         THEN /\ jobs' = Append(jobs, NewJobRow(Len(jobs) + 1))
              /\ jobHist' = Append(jobHist, << NewJobRow(Len(jobs) + 1).status >>)
              /\ jobId' = [jobId EXCEPT ![r] = Len(jobs) + 1]
              /\ Goto(r, "clear")
              /\ UNCHANGED error
         ELSE /\ Throw(r, IF outcome = "connect_error" THEN DbConnectMessage
                                                       ELSE DbExecuteMessage)
              /\ UNCHANGED << jobs, jobHist, jobId >>
  /\ UNCHANGED << world, scheduled, index, documents, stack, batchI, calls,
                  logs, closes, sent >>

\* Mutant of ClearIndex: the delete request is sent without commit, so the
\* index keeps its documents until a later commit.
ClearIndexNoCommit(r) ==
  /\ pc[r] = "clear"
  /\ \E outcome \in SolrOutcomes :
       IF outcome = "ok"
         THEN /\ Goto(r, "sync")
              /\ UNCHANGED << index, error >>
         ELSE /\ Throw(r, ClearMessage)
              /\ UNCHANGED index
  /\ UNCHANGED << world, scheduled, jobs, jobId, documents, stack, batchI,
                  calls, logs, closes, sent, jobHist >>

\* Mutant of ClearIndex: the delete request waits while another run is
\* writing its batches or has its walk under way (a lock on the index).
ClearIndexLocked(r) ==
  /\ pc[r] = "clear"
  /\ \A q \in RunIds \ {r} : pc[q] \notin {"sync", "walk", "index"}
  /\ \E outcome \in SolrOutcomes :
       IF outcome = "ok"
         THEN /\ index' = {}
              /\ Goto(r, "sync")
              /\ UNCHANGED error
         ELSE /\ Throw(r, ClearMessage)
              /\ UNCHANGED index
  /\ UNCHANGED << world, scheduled, jobs, jobId, documents, stack, batchI,
                  calls, logs, closes, sent, jobHist >>

\* Mutant of ClearIndex: a failed delete request is ignored and the run goes
\* on to the walk with the index as it was.
ClearIndexIgnoresFailure(r) ==
  /\ pc[r] = "clear"
  /\ \E outcome \in SolrOutcomes :
       /\ index' = IF outcome = "ok" THEN {} ELSE index
       /\ Goto(r, "sync")
       /\ UNCHANGED error
  /\ UNCHANGED << world, scheduled, jobs, jobId, documents, stack, batchI,
                  calls, logs, closes, sent, jobHist >>

\* await axios.post(`.../update`, '<delete><query>*:*</query></delete>', commit)
ClearIndex(r) ==
  /\ pc[r] = "clear"
  /\ \E outcome \in SolrOutcomes :
       IF outcome = "ok"
         THEN /\ index' = {}
              /\ Goto(r, "sync")
              /\ UNCHANGED error
         ELSE /\ Throw(r, ClearMessage)
              /\ UNCHANGED index
  /\ UNCHANGED << world, scheduled, jobs, jobId, documents, stack, batchI,
                  calls, logs, closes, sent, jobHist >>

(***************************************************************************)
(* syncCatalogs(): the walk.  stack[r] holds one frame per open loop or    *)
(* pending call; each action is one remote call with the synchronous code  *)
(* around it.                                                              *)
(*   catalogs : the loop over catalogsResponse.catalogs                    *)
(*   schemas  : the loop over schemasResponse.schemas of catalog c         *)
(*   tablesOf : the table branch of schema c.s, still to be entered        *)
(*   volumes  : the loop over volumesResponse.volumes of schema c.s        *)
(*   dir      : a call fetchVolumeFilesRecursive(path, ..., depth)         *)
(*   files    : the loop over filesResponse.contents of directory path     *)
(*   tables   : the loop over tablesResponse.tables of schema c.s          *)
(***************************************************************************)
Frame(kind, c, s, v, path, depth, todo) ==
  [kind |-> kind, c |-> c, s |-> s, v |-> v, path |-> path, depth |-> depth,
   todo |-> todo]

Top(r) == stack[r][Len(stack[r])]
Popped(r) == SubSeq(stack[r], 1, Len(stack[r]) - 1)
\* The stack with the first element of the top loop consumed.
Advanced(r) == Append(Popped(r), [Top(r) EXCEPT !.todo = Tail(@)])
InLoop(r, kind) ==
  /\ pc[r] = "walk"
  /\ stack[r] # <<>>
  /\ Top(r).kind = kind

\* One GET request as issued: the listing it asks for (kind, and the catalog,
\* schema and table or volume it is about), the endpoint string, the recursion
\* depth of a directory listing, and how the request ended.
Request(kind, c, s, name, endpoint, depth, outcome) ==
  [kind |-> kind, c |-> c, s |-> s, name |-> name, endpoint |-> endpoint,
   depth |-> depth, outcome |-> outcome]
Log(level, event, subject) == [level |-> level, event |-> event, subject |-> subject]

\* Mutant of IsExcludedCatalog: only 'system' is excluded.
IsExcludedCatalogSystemOnly(name) == name = "system"

\* excludedCatalogs.includes(catalog.name)
IsExcludedCatalog(name) == name \in excludedCatalogs

\* Mutant of IsSkippedSchema: no schema is skipped.
IsSkippedSchemaNever(name) == FALSE

\* schema.name === 'information_schema'
IsSkippedSchema(name) == name = "information_schema"

\* Mutant of DepthReached: the limit is applied five levels too late.
DepthReachedLate(currentDepth, maxDepth) == currentDepth >= maxDepth + 5

\* Mutant of DepthReached: the test is written with > instead of >=.
DepthReachedOffByOne(currentDepth, maxDepth) == currentDepth > maxDepth

\* if (currentDepth >= maxDepth) { console.warn(...); return; }
DepthReached(currentDepth, maxDepth) == currentDepth >= maxDepth

\* Mutant of SchemaBranches: the volume listing and the table listing share
\* one try block, so a failed volume listing skips the table branch.
SchemaBranchesShared(c, s, outcome, vols) ==
  IF outcome = "ok"
    THEN << Frame("tablesOf", c, s, "", "", 0, <<>>),
            Frame("volumes", c, s, "", "", 0, vols) >>
    ELSE <<>>

\* The two branches of one schema: the volume loop is entered only when the
\* volume listing succeeded; the table branch follows in either case (each
\* has its own try/catch).
SchemaBranches(c, s, outcome, vols) ==
  IF outcome = "ok"
    THEN << Frame("tablesOf", c, s, "", "", 0, <<>>),
            Frame("volumes", c, s, "", "", 0, vols) >>
    ELSE << Frame("tablesOf", c, s, "", "", 0, <<>>) >>

\* Mutant of TableBranchDocs: the table document is pushed after the column
\* listing, inside its try block.
TableBranchDocsAfterColumns(c, s, t, outcome, cols) ==
  IF outcome = "ok"
    THEN << TableDoc(c, s, t) >> \o [i \in 1..Len(cols) |-> ColumnDoc(c, s, t, cols[i])]
    ELSE <<>>

\* Mutant of TableBranchDocs: the column documents are pushed before the
\* document of their table.
TableBranchDocsColumnsFirst(c, s, t, outcome, cols) ==
  (IF outcome = "ok" THEN [i \in 1..Len(cols) |-> ColumnDoc(c, s, t, cols[i])]
                     ELSE <<>>)
    \o << TableDoc(c, s, t) >>

\* The documents pushed for one table: the table document, then one per
\* column when the column listing succeeded.
TableBranchDocs(c, s, t, outcome, cols) ==
  << TableDoc(c, s, t) >>
    \o (IF outcome = "ok" THEN [i \in 1..Len(cols) |-> ColumnDoc(c, s, t, cols[i])]
                          ELSE <<>>)

\* const catalogsResponse = await this.fetchFromDatabricks('catalogs')
ListCatalogs(r) ==
  /\ pc[r] = "sync"
  /\ \E outcome \in HttpOutcomes :
       /\ calls' = [calls EXCEPT ![r] =
            Append(@, Request("catalogs", "", "", "", "catalogs", 0, outcome))]
       /\ IF outcome = "ok"
            THEN /\ documents' = [documents EXCEPT ![r] = <<>>]
                 /\ stack' = [stack EXCEPT ![r] =
                      << Frame("catalogs", "", "", "", "", 0, Catalogs(world)) >>]
                 /\ Goto(r, "walk")
                 /\ UNCHANGED error
            ELSE /\ Throw(r, CatalogsMessage(outcome))
                 /\ UNCHANGED << documents, stack >>
  /\ UNCHANGED << world, scheduled, jobs, index, jobId, batchI, logs, closes,
                  sent, jobHist >>

\* Mutant of NextCatalog: the id of a Catalog document carries the id of the
\* job that produced it.
NextCatalogStamped(r) ==
  /\ InLoop(r, "catalogs")
  /\ Top(r).todo # <<>>
  /\ LET c == Head(Top(r).todo) IN
       IF IsExcludedCatalog(c)
         THEN /\ logs' = [logs EXCEPT ![r] = Append(@, Log("log", "skip_catalog", c))]
              /\ stack' = [stack EXCEPT ![r] = Advanced(r)]
              /\ UNCHANGED << documents, calls >>
         ELSE /\ documents' = [documents EXCEPT ![r] =
                   Append(@, [CatalogDoc(c) EXCEPT !.id = @ \o "_" \o Decimal(jobId[r])])]
              /\ \E outcome \in HttpOutcomes :
                   /\ calls' = [calls EXCEPT ![r] =
                        Append(@, Request("schemas", c, "", "",
                                          "schemas?catalog_name=" \o c, 0, outcome))]
                   /\ IF outcome = "ok"
                        THEN /\ stack' = [stack EXCEPT ![r] =
                                  Append(Advanced(r),
                                         Frame("schemas", c, "", "", "", 0, Schemas(world, c)))]
                             /\ UNCHANGED logs
                        ELSE /\ stack' = [stack EXCEPT ![r] = Advanced(r)]
                             /\ logs' = [logs EXCEPT ![r] =
                                  Append(@, Log("warn", "schemas_error", c))]
  /\ UNCHANGED << world, scheduled, jobs, index, pc, jobId, batchI, error,
                  closes, sent, jobHist >>

\* One iteration of the catalog loop.
NextCatalog(r) ==
  /\ InLoop(r, "catalogs")
  /\ Top(r).todo # <<>>
  /\ LET c == Head(Top(r).todo) IN
       IF IsExcludedCatalog(c)
         THEN /\ logs' = [logs EXCEPT ![r] = Append(@, Log("log", "skip_catalog", c))]
              /\ stack' = [stack EXCEPT ![r] = Advanced(r)]
              /\ UNCHANGED << documents, calls >>
         ELSE /\ documents' = [documents EXCEPT ![r] = Append(@, CatalogDoc(c))]
              /\ \E outcome \in HttpOutcomes :
                   /\ calls' = [calls EXCEPT ![r] =
                        Append(@, Request("schemas", c, "", "",
                                          "schemas?catalog_name=" \o c, 0, outcome))]
                   /\ IF outcome = "ok"
                        THEN /\ stack' = [stack EXCEPT ![r] =
                                  Append(Advanced(r),
                                         Frame("schemas", c, "", "", "", 0, Schemas(world, c)))]
                             /\ UNCHANGED logs
                        ELSE /\ stack' = [stack EXCEPT ![r] = Advanced(r)]
                             /\ logs' = [logs EXCEPT ![r] =
                                  Append(@, Log("warn", "schemas_error", c))]
  /\ UNCHANGED << world, scheduled, jobs, index, pc, jobId, batchI, error,
                  closes, sent, jobHist >>

\* Mutant of NextSchema: a failed volume listing empties the documents
\* gathered so far.
NextSchemaResets(r) ==
  /\ InLoop(r, "schemas")
  /\ Top(r).todo # <<>>
  /\ LET c == Top(r).c
         s == Head(Top(r).todo) IN
       IF IsSkippedSchema(s)
         THEN /\ logs' = [logs EXCEPT ![r] = Append(@, Log("log", "skip_schema", s))]
              /\ stack' = [stack EXCEPT ![r] = Advanced(r)]
              /\ UNCHANGED << documents, calls >>
         ELSE \E outcome \in HttpOutcomes :
                /\ documents' = [documents EXCEPT ![r] =
                     IF outcome = "ok" THEN Append(@, SchemaDoc(c, s)) ELSE <<>>]
                /\ calls' = [calls EXCEPT ![r] =
                     Append(@, Request("volumes", c, s, "",
                                       "volumes?catalog_name=" \o c \o "&schema_name=" \o s,
                                       0, outcome))]
                /\ stack' = [stack EXCEPT ![r] =
                     Advanced(r) \o SchemaBranches(c, s, outcome, Volumes(world, c, s))]
                /\ logs' = IF outcome = "ok" THEN logs
                           ELSE [logs EXCEPT ![r] =
                                  Append(@, Log("warn", "volumes_error", s))]
  /\ UNCHANGED << world, scheduled, jobs, index, pc, jobId, batchI, error,
                  closes, sent, jobHist >>

\* One iteration of the schema loop, up to the volume listing.
NextSchema(r) ==
  /\ InLoop(r, "schemas")
  /\ Top(r).todo # <<>>
  /\ LET c == Top(r).c
         s == Head(Top(r).todo) IN
       IF IsSkippedSchema(s)
         THEN /\ logs' = [logs EXCEPT ![r] = Append(@, Log("log", "skip_schema", s))]
              /\ stack' = [stack EXCEPT ![r] = Advanced(r)]
              /\ UNCHANGED << documents, calls >>
         ELSE /\ documents' = [documents EXCEPT ![r] = Append(@, SchemaDoc(c, s))]
              /\ \E outcome \in HttpOutcomes :
                   /\ calls' = [calls EXCEPT ![r] =
                        Append(@, Request("volumes", c, s, "",
                                          "volumes?catalog_name=" \o c \o "&schema_name=" \o s,
                                          0, outcome))]
                   /\ stack' = [stack EXCEPT ![r] =
                        Advanced(r) \o SchemaBranches(c, s, outcome, Volumes(world, c, s))]
                   /\ logs' = IF outcome = "ok" THEN logs
                              ELSE [logs EXCEPT ![r] =
                                     Append(@, Log("warn", "volumes_error", s))]
  /\ UNCHANGED << world, scheduled, jobs, index, pc, jobId, batchI, error,
                  closes, sent, jobHist >>

\* One iteration of the volume loop, up to the call of
\* fetchVolumeFilesRecursive(volumePath, ...) with the default maxDepth.
NextVolume(r) ==
  /\ InLoop(r, "volumes")
  /\ Top(r).todo # <<>>
  /\ LET c == Top(r).c
         s == Top(r).s
         v == Head(Top(r).todo) IN
       /\ documents' = [documents EXCEPT ![r] = Append(@, VolumeDoc(c, s, v))]
       /\ stack' = [stack EXCEPT ![r] =
            Append(Advanced(r), Frame("dir", c, s, v, VolumePath(c, s, v), 0, <<>>))]
  /\ UNCHANGED << world, scheduled, jobs, index, pc, jobId, batchI, error,
                  calls, logs, closes, sent, jobHist >>

\* Mutant of ListDirectory: a failed listing is not caught in the call that
\* made it but ends the loop of the caller as well.
ListDirectoryEndsParent(r) ==
  /\ InLoop(r, "dir")
  /\ LET f == Top(r) IN
       IF DepthReached(f.depth, MaxDepth)
         THEN /\ logs' = [logs EXCEPT ![r] = Append(@, Log("warn", "max_depth", f.path))]
              /\ stack' = [stack EXCEPT ![r] = Popped(r)]
              /\ UNCHANGED calls
         ELSE \E outcome \in HttpOutcomes :
                /\ calls' = [calls EXCEPT ![r] =
                     Append(@, Request("directory", f.c, f.s, f.v,
                                       "fs/directories" \o f.path, f.depth, outcome))]
                /\ IF outcome = "ok"
                     THEN /\ stack' = [stack EXCEPT ![r] =
                               Append(Popped(r),
                                      Frame("files", f.c, f.s, f.v, f.path, f.depth,
                                            DirectoryContents(world, f.path)))]
                          /\ UNCHANGED logs
                     ELSE /\ stack' = [stack EXCEPT ![r] =
                               SubSeq(stack[r], 1, Len(stack[r]) - 2)]
                          /\ logs' = [logs EXCEPT ![r] =
                               Append(@, IF outcome = "404"
                                           THEN Log("log", "path_404", f.path)
                                           ELSE Log("warn", "path_error", f.path))]
  /\ UNCHANGED << world, scheduled, jobs, index, pc, jobId, documents, batchI,
                  error, closes, sent, jobHist >>

\* fetchVolumeFilesRecursive: the depth test and the directory listing.
ListDirectory(r) ==
  /\ InLoop(r, "dir")
  /\ LET f == Top(r) IN
       IF DepthReached(f.depth, MaxDepth)
         THEN /\ logs' = [logs EXCEPT ![r] = Append(@, Log("warn", "max_depth", f.path))]
              /\ stack' = [stack EXCEPT ![r] = Popped(r)]
              /\ UNCHANGED calls
         ELSE \E outcome \in HttpOutcomes :
                /\ calls' = [calls EXCEPT ![r] =
                     Append(@, Request("directory", f.c, f.s, f.v,
                                       "fs/directories" \o f.path, f.depth, outcome))]
                /\ IF outcome = "ok"
                     THEN /\ stack' = [stack EXCEPT ![r] =
                               Append(Popped(r),
                                      Frame("files", f.c, f.s, f.v, f.path, f.depth,
                                            DirectoryContents(world, f.path)))]
                          /\ UNCHANGED logs
                     ELSE /\ stack' = [stack EXCEPT ![r] = Popped(r)]
                          /\ logs' = [logs EXCEPT ![r] =
                               Append(@, IF outcome = "404"
                                           THEN Log("log", "path_404", f.path)
                                           ELSE Log("warn", "path_error", f.path))]
  /\ UNCHANGED << world, scheduled, jobs, index, pc, jobId, documents, batchI,
                  error, closes, sent, jobHist >>

\* One iteration of the loop over the contents of a directory.
NextFile(r) ==
  /\ InLoop(r, "files")
  /\ Top(r).todo # <<>>
  /\ LET f == Top(r)
         file == Head(f.todo) IN
       /\ documents' = [documents EXCEPT ![r] = Append(@, FileDoc(f.c, f.s, f.v, file))]
       /\ stack' = [stack EXCEPT ![r] =
            IF file.is_directory
              THEN Append(Advanced(r),
                          Frame("dir", f.c, f.s, f.v, SubPath(file.path), f.depth + 1, <<>>))
              ELSE Advanced(r)]
  /\ UNCHANGED << world, scheduled, jobs, index, pc, jobId, batchI, error,
                  calls, logs, closes, sent, jobHist >>

\* Mutant of ListTables: a failed table listing is issued again.
ListTablesRetries(r) ==
  /\ InLoop(r, "tablesOf")
  /\ LET c == Top(r).c
         s == Top(r).s IN
       \E outcome \in HttpOutcomes :
         /\ calls' = [calls EXCEPT ![r] =
              Append(@, Request("tables", c, s, "",
                                "tables?catalog_name=" \o c \o "&schema_name=" \o s,
                                0, outcome))]
         /\ IF outcome = "ok"
              THEN /\ stack' = [stack EXCEPT ![r] =
                        Append(Popped(r), Frame("tables", c, s, "", "", 0, Tables(world, c, s)))]
                   /\ UNCHANGED logs
              ELSE /\ UNCHANGED stack
                   /\ logs' = [logs EXCEPT ![r] = Append(@, Log("warn", "tables_error", s))]
  /\ UNCHANGED << world, scheduled, jobs, index, pc, jobId, documents, batchI,
                  error, closes, sent, jobHist >>

\* Mutant of ListTables: the table listing has no try block of its own, so
\* its failure leaves syncCatalogs() through the outer catch.
ListTablesRethrows(r) ==
  /\ InLoop(r, "tablesOf")
  /\ LET c == Top(r).c
         s == Top(r).s IN
       \E outcome \in HttpOutcomes :
         /\ calls' = [calls EXCEPT ![r] =
              Append(@, Request("tables", c, s, "",
                                "tables?catalog_name=" \o c \o "&schema_name=" \o s,
                                0, outcome))]
         /\ IF outcome = "ok"
              THEN /\ stack' = [stack EXCEPT ![r] =
                        Append(Popped(r), Frame("tables", c, s, "", "", 0, Tables(world, c, s)))]
                   /\ UNCHANGED << pc, error >>
              ELSE /\ stack' = [stack EXCEPT ![r] = <<>>]
                   /\ Throw(r, "tables request failed")
  /\ UNCHANGED << world, scheduled, jobs, index, jobId, documents, batchI,
                  logs, closes, sent, jobHist >>

\* const tablesResponse = await this.fetchFromDatabricks(`tables?...`)
ListTables(r) ==
  /\ InLoop(r, "tablesOf")
  /\ LET c == Top(r).c
         s == Top(r).s IN
       \E outcome \in HttpOutcomes :
         /\ calls' = [calls EXCEPT ![r] =
              Append(@, Request("tables", c, s, "",
                                "tables?catalog_name=" \o c \o "&schema_name=" \o s,
                                0, outcome))]
         /\ IF outcome = "ok"
              THEN /\ stack' = [stack EXCEPT ![r] =
                        Append(Popped(r), Frame("tables", c, s, "", "", 0, Tables(world, c, s)))]
                   /\ UNCHANGED logs
              ELSE /\ stack' = [stack EXCEPT ![r] = Popped(r)]
                   /\ logs' = [logs EXCEPT ![r] = Append(@, Log("warn", "tables_error", s))]
  /\ UNCHANGED << world, scheduled, jobs, index, pc, jobId, documents, batchI,
                  error, closes, sent, jobHist >>

\* One iteration of the table loop: the table document and its columns.
NextTable(r) ==
  /\ InLoop(r, "tables")
  /\ Top(r).todo # <<>>
  /\ LET c == Top(r).c
         s == Top(r).s
         t == Head(Top(r).todo) IN
       /\ \E outcome \in HttpOutcomes :
            /\ calls' = [calls EXCEPT ![r] =
                 Append(@, Request("columns", c, s, t,
                                   "tables/" \o c \o "." \o s \o "." \o t \o "/columns",
                                   0, outcome))]
            /\ documents' = [documents EXCEPT ![r] =
                 @ \o TableBranchDocs(c, s, t, outcome, Columns(world, c, s, t))]
            /\ logs' = IF outcome = "ok" THEN logs
                       ELSE [logs EXCEPT ![r] =
                              Append(@, IF outcome = "404"
                                          THEN Log("log", "columns_404", t)
                                          ELSE Log("warn", "columns_error", t))]
       /\ stack' = [stack EXCEPT ![r] = Advanced(r)]
  /\ UNCHANGED << world, scheduled, jobs, index, pc, jobId, batchI, error,
                  closes, sent, jobHist >>

\* A loop below the catalog loop has run out of elements.
EndLoop(r) ==
  /\ pc[r] = "walk"
  /\ stack[r] # <<>>
  /\ Top(r).kind \in {"schemas", "volumes", "files", "tables"}
  /\ Top(r).todo = <<>>
  /\ stack' = [stack EXCEPT ![r] = Popped(r)]
  /\ UNCHANGED << world, scheduled, jobs, index, pc, jobId, documents, batchI,
                  error, calls, logs, closes, sent, jobHist >>

\* return documents
ReturnDocuments(r) ==
  /\ InLoop(r, "catalogs")
  /\ Top(r).todo = <<>>
  /\ stack' = [stack EXCEPT ![r] = <<>>]
  /\ batchI' = [batchI EXCEPT ![r] = 0]
  /\ Goto(r, "index")
  /\ UNCHANGED << world, scheduled, jobs, index, jobId, documents, error,
                  calls, logs, closes, sent, jobHist >>

(***************************************************************************)
(* run(): the batch loop and the closing of the job.                       *)
(***************************************************************************)
\* Mutant of Slice: documents.slice(i, i + batchSize - 1).
SliceShort(docs, i, j) == SubSeq(docs, i + 1, Min(j - 1, Len(docs)))

\* documents.slice(i, i + batchSize)
Slice(docs, i, j) == SubSeq(docs, i + 1, Min(j, Len(docs)))

\* Mutant of AddDocs: a write replaces what the core holds.
AddDocsReplacesAll(idx, batch) == {batch[k] : k \in 1..Len(batch)}

\* POST update/json/docs with commit=true: the core keeps one document per
\* id, the last one written.
AddDocs(idx, batch) ==
  {d \in idx : \A k \in 1..Len(batch) : batch[k].id # d.id}
    \cup {batch[k] : k \in {k \in 1..Len(batch) :
                              \A m \in (k + 1)..Len(batch) : batch[m].id # batch[k].id}}

\* One iteration of the batch loop: await this.indexToSolr(batch)
IndexBatch(r) ==
  /\ pc[r] = "index"
  /\ batchI[r] < Len(documents[r])
  /\ LET batch == Slice(documents[r], batchI[r], batchI[r] + batchSize) IN
       \E outcome \in SolrOutcomes :
         IF outcome = "ok"
           THEN /\ index' = AddDocs(index, batch)
                /\ sent' = [sent EXCEPT ![r] = Append(@, batch)]
                /\ batchI' = [batchI EXCEPT ![r] = @ + batchSize]
                /\ UNCHANGED << pc, error >>
           ELSE /\ Throw(r, BatchMessage)
                /\ UNCHANGED << index, sent, batchI >>
  /\ UNCHANGED << world, scheduled, jobs, jobId, documents, stack, calls, logs,
                  closes, jobHist >>

\* await this.updateIndexingJob(jobId, 'completed', documents.length)
CompleteJob(r) ==
  /\ pc[r] = "index"
  /\ ~(batchI[r] < Len(documents[r]))
  /\ \E outcome \in DbOutcomes :
       /\ UpdateIndexingJob(r, "completed", Len(documents[r]), NULL, outcome)
       /\ IF UpdateThrows(outcome)
            THEN Throw(r, DbConnectMessage)
            ELSE Goto(r, "exit0") /\ UNCHANGED error
  /\ UNCHANGED << world, scheduled, index, jobId, documents, stack, batchI,
                  calls, logs, sent >>

\* Mutant of FailJob: the failing close records the number of documents
\* the run had written.
FailJobCountsSent(r) ==
  /\ pc[r] = "catch"
  /\ IF jobId[r] # 0
       THEN \E outcome \in DbOutcomes :
              /\ UpdateIndexingJob(r, "failed", batchI[r], error[r], outcome)
              /\ Goto(r, IF UpdateThrows(outcome) THEN "rejected" ELSE "exit1")
       ELSE /\ Goto(r, "exit1")
            /\ UNCHANGED << jobs, jobHist, closes >>
  /\ UNCHANGED << world, scheduled, index, jobId, documents, stack, batchI,
                  error, calls, logs, sent >>

\* catch (error) { if (jobId) { await this.updateIndexingJob(jobId, 'failed',
\*   0, error.message) } process.exit(1) }.  When updateIndexingJob rejects
\* inside the catch block, process.exit(1) is not reached and run() rejects.
FailJob(r) ==
  /\ pc[r] = "catch"
  /\ IF jobId[r] # 0
       THEN \E outcome \in DbOutcomes :
              /\ UpdateIndexingJob(r, "failed", 0, error[r], outcome)
              /\ Goto(r, IF UpdateThrows(outcome) THEN "rejected" ELSE "exit1")
       ELSE /\ Goto(r, "exit1")
            /\ UNCHANGED << jobs, jobHist, closes >>
  /\ UNCHANGED << world, scheduled, index, jobId, documents, stack, batchI,
                  error, calls, logs, sent >>

Next ==
  \E r \in RunIds :
    \/ Start(r)
    \/ CreateIndexingJob(r)
    \/ ClearIndex(r)
    \/ ListCatalogs(r)
    \/ NextCatalog(r)
    \/ NextSchema(r)
    \/ NextVolume(r)
    \/ ListDirectory(r)
    \/ NextFile(r)
    \/ ListTables(r)
    \/ NextTable(r)
    \/ EndLoop(r)
    \/ ReturnDocuments(r)
    \/ IndexBatch(r)
    \/ CompleteJob(r)
    \/ FailJob(r)

Spec == Init /\ [][Next]_vars

\* The same, every awaited call returning (a run that can take a step takes one).
FairSpec == Init /\ [][Next]_vars /\ WF_vars(Next)

\* The same run against the catalog whose volume has a directory tree without
\* bottom, every awaited call returning (a run that can take a step takes one).
DeepInit ==
  /\ world = [kind |-> "deep", ncols |-> 0]
  /\ scheduled = {1}
  /\ InitRuns

DeepSpec == DeepInit /\ [][Next]_vars /\ WF_vars(Next)

Terminated(r) == pc[r] \in {"exit0", "exit1", "rejected"}

(***************************************************************************)
(* Two consecutive invocations against one unchanged catalog: the          *)
(* scheduler invokes run 2 when run 1 has ended, and the workspace answers *)
(* a request of run 2 as it answered the same request of run 1.            *)
(***************************************************************************)
TwoRunsWorlds ==
  {[kind |-> k, ncols |-> 0] : k \in {"basic", "collide", "empty"}}
    \cup {[kind |-> "wide", ncols |-> n] : n \in 0..1}

TwoRunsInit ==
  /\ world \in TwoRunsWorlds
  /\ scheduled = {1, 2}
  /\ InitRuns

\* Every run invoked before run r has ended.
Consecutive(r) == \A q \in 1..(r - 1) : Terminated(q)

\* A request both runs issued ended the same way in both.
SameAnswers ==
  \A j \in DOMAIN calls[1], k \in DOMAIN calls[2] :
    calls[1][j].endpoint = calls[2][k].endpoint
      => calls[1][j].outcome = calls[2][k].outcome

TwoRunsNext ==
  \E r \in RunIds :
    \/ Consecutive(r) /\ Start(r)
    \/ CreateIndexingJob(r)
    \/ ClearIndex(r)
    \/ ListCatalogs(r) /\ SameAnswers'
    \/ NextCatalog(r) /\ SameAnswers'
    \/ NextSchema(r) /\ SameAnswers'
    \/ NextVolume(r)
    \/ ListDirectory(r) /\ SameAnswers'
    \/ NextFile(r)
    \/ ListTables(r) /\ SameAnswers'
    \/ NextTable(r) /\ SameAnswers'
    \/ EndLoop(r)
    \/ ReturnDocuments(r)
    \/ IndexBatch(r)
    \/ CompleteJob(r)
    \/ FailJob(r)

TwoRunsSpec == TwoRunsInit /\ [][TwoRunsNext]_vars

(***************************************************************************)
(* Two invocations at the same time (two processes): their steps           *)
(* interleave freely; each awaited call is one step.                       *)
(***************************************************************************)
ConcurrentWorlds ==
  {[kind |-> "solo", ncols |-> 0], [kind |-> "wide", ncols |-> 0]}

ConcurrentInit ==
  /\ world \in ConcurrentWorlds
  /\ scheduled = {1, 2}
  /\ InitRuns

ConcurrentSpec == ConcurrentInit /\ [][Next]_vars

(***************************************************************************)
(* Properties.                                                             *)
(***************************************************************************)
RECURSIVE Flatten(_)
Flatten(seqs) == IF seqs = <<>> THEN <<>> ELSE Head(seqs) \o Flatten(Tail(seqs))

\* The job row of run r exists.
HasJob(r) == jobId[r] # 0
JobOf(r) == jobs[jobId[r]]

\* C1: every job row starts as 'running' and its status is written at most
\* once more, to 'completed' or to 'failed'; a terminal row is never written
\* again (never completed then failed, never re-opened).
C1_StatusChangesOnce ==
  \A k \in DOMAIN jobs :
    /\ jobHist[k] \in { <<"running">>, <<"running", "completed">>,
                        <<"running", "failed">> }
    /\ jobs[k].status = jobHist[k][Len(jobHist[k])]

\* C1 witness: a run whose 'completed' update could not connect and whose
\* 'failed' update then went through: the row went running -> failed, once.
C1_Witness ==
  \E r \in RunIds :
    /\ Terminated(r) /\ HasJob(r)
    /\ Len(closes[r]) = 2
    /\ jobHist[jobId[r]] = <<"running", "failed">>

\* C2 (as claimed): in a run that created its job, exactly one closing call
\* updateIndexingJob(jobId, 'completed' | 'failed', ...) is made, never both
\* and never neither, also when the connection of the closing call fails.
C2_ExactlyOneClosingCall ==
  \A r \in RunIds :
    HasJob(r) => /\ Len(closes[r]) <= 1
                 /\ Terminated(r) => Len(closes[r]) = 1

\* C3: whenever the job row of a run is 'completed', its records_processed is
\* the length of the document sequence syncCatalogs returned in that run,
\* which is also the number of documents sent to the index over all batches.
C3_CompletedCount ==
  \A r \in RunIds :
    (HasJob(r) /\ JobOf(r).status = "completed")
      => /\ JobOf(r).records_processed = Len(documents[r])
         /\ JobOf(r).records_processed = Len(Flatten(sent[r]))

\* C3 witness: a completed job whose documents took more than one batch.
C3_Witness ==
  \E r \in RunIds :
    /\ HasJob(r) /\ JobOf(r).status = "completed"
    /\ JobOf(r).records_processed > batchSize
    /\ Len(sent[r]) > 1

Range(seq) == {seq[i] : i \in 1..Len(seq)}
\* No element occurs twice in seq.
NoDup(seq) == Cardinality(Range(seq)) = Len(seq)
IsFileDoc(d) == d.type \in {"file", "directory"}

\* Sibling entities of the remote catalog have distinct names.
SiblingsDistinct(w) ==
  /\ NoDup(Catalogs(w))
  /\ \A c \in Range(Catalogs(w)) :
       /\ NoDup(Schemas(w, c))
       /\ \A s \in Range(Schemas(w, c)) :
            /\ NoDup(Volumes(w, c, s))
            /\ NoDup(Tables(w, c, s))
            /\ \A t \in Range(Tables(w, c, s)) : NoDup(Columns(w, c, s, t))

\* The directory entries seen so far in one volume have distinct paths.
PathsDistinct(docs) ==
  LET F == {i \in 1..Len(docs) : IsFileDoc(docs[i])} IN
    Cardinality({docs[i].full_name : i \in F}) = Cardinality(F)

\* The ids of the documents, in order.
Ids(docs) == [i \in 1..Len(docs) |-> docs[i].id]

\* C4 (as claimed): when sibling entities have distinct names and the entries
\* of a volume have distinct paths, the documents of one syncCatalogs() call
\* have pairwise distinct ids, file and directory ids included.
\* (Written as the contrapositive: two equal ids only with equal siblings.)
C4_UniqueIds ==
  \A r \in RunIds :
    ~NoDup(Ids(documents[r]))
      => ~(SiblingsDistinct(world) /\ PathsDistinct(documents[r]))

\* Number of occurrences of the character ch in s.
CountChar(s, ch) == Cardinality({i \in 1..Len(s) : CharAt(s, i) = ch})

\* How many levels below the volume root the entry with this relative path is.
PathLevel(rel) ==
  CountChar(IF EndsWithSlash(rel) THEN SubSeq(rel, 1, Len(rel) - 1) ELSE rel, "/") + 1

\* Number of directory listings whose entry loop is open (nested calls).
OpenListings(r) == Cardinality({i \in 1..Len(stack[r]) : stack[r][i].kind = "files"})

\* C5: no directory listing is issued at recursion depth >= maxDepth (volume
\* root = depth 0), at most maxDepth listings are nested, and no document is
\* emitted for an entry more than maxDepth levels below the volume root.
C5_DepthBounded ==
  \A r \in RunIds :
    /\ \A k \in 1..Len(calls[r]) :
         calls[r][k].kind = "directory" => calls[r][k].depth < MaxDepth
    /\ OpenListings(r) <= MaxDepth
    /\ \A i \in 1..Len(documents[r]) :
         IsFileDoc(documents[r][i]) => PathLevel(documents[r][i].file_path) <= MaxDepth

\* C5 witness: the deepest allowed listing (depth maxDepth - 1) was made, its
\* entries were emitted at level maxDepth, and the descent below was cut.
C5_Witness ==
  \E r \in RunIds :
    /\ \E k \in 1..Len(calls[r]) :
         /\ calls[r][k].kind = "directory"
         /\ calls[r][k].depth = MaxDepth - 1
         /\ calls[r][k].outcome = "ok"
    /\ \E i \in 1..Len(documents[r]) :
         /\ documents[r][i].type = "directory"
         /\ PathLevel(documents[r][i].file_path) = MaxDepth
    /\ \E k \in 1..Len(logs[r]) : logs[r][k].event = "max_depth"

\* The descent below directory path was cut by run r: the cut is on the
\* console as a warning, and no listing of path was requested.
CutLogged(r, path) ==
  /\ \E k \in 1..Len(logs[r]) : logs[r][k] = Log("warn", "max_depth", path)
  /\ \A k \in 1..Len(calls[r]) : calls[r][k].endpoint # "fs/directories" \o path

\* Every directory that run r found maxDepth levels below its volume root
\* has been cut.
CutsAtMaxDepth(r) ==
  \A i \in 1..Len(documents[r]) :
    LET d == documents[r][i] IN
      (d.type = "directory" /\ PathLevel(d.file_path) = MaxDepth)
        => CutLogged(r, VolumePath(d.catalog_name, d.schema_name, d.volume_name)
                          \o d.file_path \o "/")

\* No traversal of run r raised an error into syncCatalogs: after every
\* listing of a volume's directories the walk went on to the table branch of
\* the same schema.
WalkWentOn(r) ==
  \A k \in 1..Len(calls[r]) :
    calls[r][k].kind = "directory"
      => \E m \in (k + 1)..Len(calls[r]) :
           /\ calls[r][m].kind = "tables"
           /\ calls[r][m].c = calls[r][k].c
           /\ calls[r][m].s = calls[r][k].s

\* Run r made the one closing call 'completed' with the number of documents.
EndedCompleted(r) ==
  /\ Len(closes[r]) = 1
  /\ closes[r][1].status = "completed"
  /\ closes[r][1].records_processed = Len(documents[r])

\* C6: with a volume whose directory tree is deeper than maxDepth (here: one
\* without bottom), every run that starts ends; each traversal has ended and
\* the walk has gone on after it, every directory maxDepth levels down was cut
\* with a warning on the console instead of a listing, and a run that no fatal
\* failure stopped closed its job as 'completed'.
C6_DeepTreeTerminates ==
  (\E r \in RunIds : pc[r] = "create")
    ~> (\A r \in scheduled :
          /\ Terminated(r)
          /\ CutsAtMaxDepth(r)
          /\ WalkWentOn(r)
          /\ (HasJob(r) /\ error[r] = NULL) => EndedCompleted(r))

\* C6 witness: the bottomless tree was walked down to the cut, and the job of
\* that run is 'completed'.
C6_Witness ==
  \E r \in RunIds :
    /\ world.kind = "deep"
    /\ \E k \in 1..Len(logs[r]) : logs[r][k].event = "max_depth"
    /\ HasJob(r) /\ JobOf(r).status = "completed"
    /\ Len(documents[r]) > 2 * MaxDepth

\* The documents of run r that satisfy P.
Count(r, P(_)) == Cardinality({i \in 1..Len(documents[r]) : P(documents[r][i])})
Emitted(r, d) == \E i \in 1..Len(documents[r]) : documents[r][i] = d

\* Request k of run r is a listing of the given kind that failed.
Failed(r, k, kind) == calls[r][k].kind = kind /\ calls[r][k].outcome # "ok"

\* The batch loop of run r ended without a failed write.
PastBatchLoop(r) == closes[r] # <<>> /\ closes[r][1].status = "completed"

\* syncCatalogs() of run r has returned its documents.
WalkReturned(r) == pc[r] = "index" \/ error[r] = BatchMessage \/ PastBatchLoop(r)

\* After request k (the column listing of table t of schema c.s) the table
\* loop goes on: the next table of the listing, if any, is the next to be
\* processed or has had its own column listing.
NextTableFollows(r, k) ==
  LET c == calls[r][k].c
      s == calls[r][k].s
      tbls == Tables(world, c, s) IN
    \A p \in 1..(Len(tbls) - 1) :
      tbls[p] = calls[r][k].name
        => \/ \E m \in (k + 1)..Len(calls[r]) :
                /\ calls[r][m].kind = "columns"
                /\ calls[r][m].c = c /\ calls[r][m].s = s
                /\ calls[r][m].name = tbls[p + 1]
           \/ /\ InLoop(r, "tables")
              /\ Top(r).todo # <<>>
              /\ Head(Top(r).todo) = tbls[p + 1]

\* C7: for every table whose column listing failed (404 or any other error)
\* there is exactly one Table document and no Column document, and the table
\* loop continues with the next table.
C7_TableWithoutColumns ==
  \A r \in RunIds :
    \A k \in 1..Len(calls[r]) :
      Failed(r, k, "columns")
        => LET c == calls[r][k].c
               s == calls[r][k].s
               t == calls[r][k].name
               IsTable(d) == /\ d.type = "table" /\ d.catalog_name = c
                             /\ d.schema_name = s /\ d.table_name = t
               IsColumn(d) == /\ d.type = "column" /\ d.catalog_name = c
                              /\ d.schema_name = s /\ d.table_name = t
           IN /\ Count(r, IsTable) = 1
              /\ Count(r, IsColumn) = 0
              /\ NextTableFollows(r, k)

\* C7 witness: the column listing of the first of two tables answered 404,
\* the second table got its documents, and the job is 'completed'.
C7_Witness ==
  \E r \in RunIds :
    /\ \E k \in 1..Len(calls[r]) :
         /\ calls[r][k].kind = "columns" /\ calls[r][k].outcome = "404"
         /\ calls[r][k].name = "orders"
    /\ Emitted(r, TableDoc("sales", "raw", "orders"))
    /\ Emitted(r, ColumnDoc("sales", "raw", "customers", "id"))
    /\ HasJob(r) /\ JobOf(r).status = "completed"

\* The table branch of schema c.s has been entered by run r after request k,
\* or is the next thing the walk does.
TableBranchFollows(r, k, c, s) ==
  \/ \E m \in (k + 1)..Len(calls[r]) :
       calls[r][m].kind = "tables" /\ calls[r][m].c = c /\ calls[r][m].s = s
  \/ \E i \in 1..Len(stack[r]) :
       stack[r][i].kind = "tablesOf" /\ stack[r][i].c = c /\ stack[r][i].s = s

\* Run r has listed the tables of c.s successfully and left the table loop.
TablesDone(r, c, s) ==
  /\ \E m \in 1..Len(calls[r]) :
       /\ calls[r][m].kind = "tables" /\ calls[r][m].outcome = "ok"
       /\ calls[r][m].c = c /\ calls[r][m].s = s
  /\ \A i \in 1..Len(stack[r]) :
       ~(stack[r][i].kind = "tables" /\ stack[r][i].c = c /\ stack[r][i].s = s)

\* Every table of c.s has its Table document, and its Column documents when
\* its column listing succeeded.
TableDocsEmitted(r, c, s) ==
  \A t \in Range(Tables(world, c, s)) :
    /\ Emitted(r, TableDoc(c, s, t))
    /\ (\E m \in 1..Len(calls[r]) :
          /\ calls[r][m].kind = "columns" /\ calls[r][m].outcome = "ok"
          /\ calls[r][m].c = c /\ calls[r][m].s = s /\ calls[r][m].name = t)
         => \A col \in Range(Columns(world, c, s, t)) : Emitted(r, ColumnDoc(c, s, t, col))

\* Every volume of c.s that run r listed has its Volume document, and every
\* entry of every directory listing that succeeded has its document.
VolumeDocsEmitted(r, c, s) ==
  \A m \in 1..Len(calls[r]) :
    (calls[r][m].c = c /\ calls[r][m].s = s /\ calls[r][m].outcome = "ok")
      => /\ calls[r][m].kind = "volumes"
              => \A v \in Range(Volumes(world, c, s)) : Emitted(r, VolumeDoc(c, s, v))
         /\ calls[r][m].kind = "directory"
              => \A e \in Range(DirectoryContents(world,
                                  RemoveFirst(calls[r][m].endpoint, "fs/directories"))) :
                   Emitted(r, FileDoc(c, s, calls[r][m].name, e))

\* C8: the two branches of a schema are independent.  After a failed volume
\* listing the table listing of the same schema is still made and, when it
\* succeeds, all Table and Column documents are emitted; a failed table
\* listing leaves the Volume and File documents of the schema in place.
C8_BranchesIndependent ==
  \A r \in RunIds :
    \A k \in 1..Len(calls[r]) :
      LET c == calls[r][k].c
          s == calls[r][k].s IN
        /\ Failed(r, k, "volumes")
             => /\ TableBranchFollows(r, k, c, s)
                /\ TablesDone(r, c, s) => TableDocsEmitted(r, c, s)
        /\ Failed(r, k, "tables") => VolumeDocsEmitted(r, c, s)

\* C8 witness: in one walk the volume listing of sales.raw failed and its
\* tables and columns were emitted.
C8_Witness ==
  \E r \in RunIds :
    /\ \E k \in 1..Len(calls[r]) : Failed(r, k, "volumes") /\ calls[r][k].s = "raw"
    /\ TablesDone(r, "sales", "raw")
    /\ Emitted(r, ColumnDoc("sales", "raw", "orders", "total"))
    /\ Emitted(r, TableDoc("sales", "raw", "customers"))

\* C9: the batches written are the contiguous slices of the document
\* sequence in order, each of 1 to 100 documents; when no write failed there
\* are exactly ceil(N/100) of them and together they are the N documents,
\* each once (none for N = 0).
C9_BatchPartition ==
  \A r \in RunIds :
    LET N == Len(documents[r]) IN
      /\ \A k \in 1..Len(sent[r]) :
           /\ Len(sent[r][k]) \in 1..100
           /\ sent[r][k] = SubSeq(documents[r], (k - 1) * 100 + 1, Min(k * 100, N))
      /\ PastBatchLoop(r)
           => /\ Len(sent[r]) = Ceil(N, 100)
              /\ Flatten(sent[r]) = documents[r]

\* C9 witness: a completed run whose documents went out in three batches,
\* the last one not full.
C9_Witness ==
  \E r \in RunIds :
    /\ PastBatchLoop(r) /\ pc[r] = "exit0"
    /\ Len(sent[r]) = 3
    /\ Len(sent[r][3]) < 100

\* C10: no document has a catalog_name in {'system', 'hive_metastore'} and no
\* call is made for such a catalog; when the walk has returned, every other
\* catalog of the listing has exactly one Catalog document and the excluded
\* ones have none.
C10_ExcludedCatalogs ==
  \A r \in RunIds :
    /\ \A i \in 1..Len(documents[r]) :
         documents[r][i].catalog_name \notin {"system", "hive_metastore"}
    /\ \A k \in 1..Len(calls[r]) : calls[r][k].c \notin {"system", "hive_metastore"}
    /\ WalkReturned(r)
         => \A c \in Range(Catalogs(world)) :
              LET IsCatalog(d) == d.type = "catalog" /\ d.name = c IN
                Count(r, IsCatalog) = IF c \in {"system", "hive_metastore"} THEN 0 ELSE 1

\* C10 witness: the listing returned system, sales and hive_metastore; the
\* walk has returned with the one Catalog document of sales.
C10_Witness ==
  \E r \in RunIds :
    /\ Catalogs(world) = <<"system", "sales", "hive_metastore">>
    /\ WalkReturned(r)
    /\ Emitted(r, CatalogDoc("sales"))
    /\ Cardinality({k \in 1..Len(logs[r]) : logs[r][k].event = "skip_catalog"}) = 2

\* The ids of the documents the index holds.
IdsOf(idx) == {d.id : d \in idx}

\* C11: two consecutive runs against the unchanged catalog, every request
\* answered the second time as the first time, return documents with the same
\* ids in the same order; and when both runs wrote all their batches, the
\* index after the second run holds the ids it held after the first (the ids
\* of the first run's documents).
C11_ConsecutiveRunsAgree ==
  /\ (Terminated(1) /\ pc[2] = "idle" /\ PastBatchLoop(1))
       => IdsOf(index) = Range(Ids(documents[1]))
  /\ (WalkReturned(1) /\ WalkReturned(2) /\ SameAnswers)
       => Ids(documents[2]) = Ids(documents[1])
  /\ (PastBatchLoop(1) /\ Terminated(2) /\ PastBatchLoop(2) /\ SameAnswers)
       => IdsOf(index) = Range(Ids(documents[1]))

\* C11 witness: both runs walked sales with the same failed listing, wrote
\* all their batches and ended.
C11_Witness ==
  /\ world.kind = "basic"
  /\ Terminated(1) /\ Terminated(2)
  /\ PastBatchLoop(1) /\ PastBatchLoop(2)
  /\ \E k \in 1..Len(calls[2]) : calls[2][k].outcome # "ok"
  /\ calls[2] = calls[1]
  /\ Len(documents[2]) > 3
  /\ jobId[2] # jobId[1]

\* Run r had a listing below the catalog listing fail.
DeeperFailure(r) ==
  \E k \in 1..Len(calls[r]) :
    calls[r][k].kind \in {"schemas", "volumes", "tables", "columns", "directory"}
      /\ calls[r][k].outcome # "ok"

\* An error that reaches run() out of syncCatalogs() is the failure of the
\* catalog listing, the only request made; after a failure of a deeper
\* listing the walk is still going or has returned its documents.
WalkFailuresContained(r) ==
  /\ (error[r] # NULL /\ calls[r] # <<>> /\ ~WalkReturned(r))
       => /\ Len(calls[r]) = 1
          /\ Failed(r, 1, "catalogs")
          /\ error[r] = CatalogsMessage(calls[r][1].outcome)
  /\ (calls[r] # <<>> /\ Failed(r, 1, "catalogs"))
       => pc[r] \in {"catch", "exit1", "rejected"} /\ error[r] # NULL
  /\ DeeperFailure(r)
       => (pc[r] = "walk" /\ error[r] = NULL) \/ WalkReturned(r)

\* C12: of the failures inside syncCatalogs() only that of the catalog
\* listing reaches run(); after a failed schema, volume, table, column or
\* directory listing the walk goes on and returns its documents.
C12_OnlyCatalogListingIsFatal ==
  /\ [](\A r \in RunIds : WalkFailuresContained(r))
  /\ \A r \in RunIds : DeeperFailure(r) ~> WalkReturned(r)

\* C12 witness: a directory listing and a column listing failed, and the
\* walk returned the documents of the rest.
C12_Witness ==
  \E r \in RunIds :
    /\ \E k \in 1..Len(calls[r]) : Failed(r, k, "directory")
    /\ \E k \in 1..Len(calls[r]) : Failed(r, k, "columns")
    /\ pc[r] = "index"
    /\ Len(documents[r]) > 3

\* The error run r caught is the failure of the index clear, of the catalog
\* listing or of a batch write.
FatalFailure(r) ==
  error[r] \in {ClearMessage, BatchMessage} \cup {CatalogsMessage(o) : o \in HttpOutcomes}

\* C13 (as claimed): in a run whose job was created, a failure of the index
\* clear, of the catalog listing or of a batch write never comes with a
\* 'completed' job, and once the run has ended the job row is 'failed' with
\* that failure's message and the process has exited through process.exit(1).
C13_FatalFailureMarksJobFailed ==
  \A r \in RunIds :
    (HasJob(r) /\ FatalFailure(r))
      => /\ \A k \in 1..Len(jobHist[jobId[r]]) : jobHist[jobId[r]][k] # "completed"
         /\ Terminated(r)
              => /\ JobOf(r).status = "failed"
                 /\ JobOf(r).error_message = error[r]
                 /\ pc[r] = "exit1"

\* The documents of the first n accepted batches of run r.
Written(r, n) == Flatten(SubSeq(sent[r], 1, n))

\* When the write of batch k has failed, batches 1..k-1 are all the run has
\* written and they are what the index holds; no document of batch k or of a
\* later batch is in the index.
BatchesAfterFailure ==
  \A r \in RunIds :
    error[r] = BatchMessage
      => LET k == (batchI[r] \div batchSize) + 1 IN
           /\ Len(sent[r]) = k - 1
           /\ Written(r, k - 1) = SubSeq(documents[r], 1, batchI[r])
           /\ index = Range(Written(r, k - 1))
           /\ \A i \in (batchI[r] + 1)..Len(documents[r]) : documents[r][i] \notin index

\* C14 (as claimed): when the write of batch k fails, no later batch is
\* written, batches 1..k-1 stay in the index, batch k and the later ones are
\* absent, and once the run has ended the job is 'failed'.
C14_FailedBatchStopsTheLoop ==
  /\ BatchesAfterFailure
  /\ \A r \in RunIds :
       (error[r] = BatchMessage /\ Terminated(r)) => JobOf(r).status = "failed"

\* The index was cleared (by the one run invoked): what the earlier run left
\* is gone.
Cleared == OldDoc \notin index

\* C15: the steps of one run come in the order job creation, index clear,
\* walk, batch writes, job completion: the index is touched and the first
\* metadata request is made only with the job created; requests are made
\* only with the index cleared; a batch is written only when the walk has
\* returned and all metadata requests are made; and the 'completed' closing
\* call is made, and the row marked 'completed', only when every batch of
\* the returned documents has been written.
C15_StepsInOrder ==
  \A r \in scheduled :
    /\ (Cleared \/ calls[r] # <<>> \/ sent[r] # <<>> \/ closes[r] # <<>>) => HasJob(r)
    /\ pc[r] \in {"idle", "create", "clear"}
         => calls[r] = <<>> /\ sent[r] = <<>> /\ closes[r] = <<>> /\ ~Cleared
    /\ calls[r] # <<>> => Cleared
    /\ pc[r] \in {"sync", "walk"} => sent[r] = <<>> /\ closes[r] = <<>>
    /\ sent[r] # <<>> => WalkReturned(r) /\ stack[r] = <<>>
    /\ \A k \in 1..Len(closes[r]) :
         closes[r][k].status = "completed"
           => /\ k = 1
              /\ Flatten(sent[r]) = documents[r]
              /\ Len(sent[r]) = Ceil(Len(documents[r]), batchSize)
    /\ (HasJob(r) /\ JobOf(r).status = "completed")
         => Flatten(sent[r]) = documents[r] /\ pc[r] = "exit0"

\* C15 witness: a run that went through all five steps, with two batches.
C15_Witness ==
  \E r \in RunIds :
    /\ pc[r] = "exit0"
    /\ HasJob(r) /\ JobOf(r).status = "completed"
    /\ Len(calls[r]) > 3
    /\ Len(sent[r]) = 2
    /\ index = Range(documents[r])

\* What identifies a document as a parent: its type and its full name.
Key(type, fullName) == [type |-> type, full_name |-> fullName]
KeyOf(d) == Key(d.type, d.full_name)

\* The relative path of the directory that holds the entry with relative
\* path rel; "" when the entry lies in the volume root.
ParentRel(rel) ==
  LET p == IF EndsWithSlash(rel) THEN SubSeq(rel, 1, Len(rel) - 1) ELSE rel
      slashes == {i \in 1..Len(p) : CharAt(p, i) = "/"}
  IN IF slashes = {} THEN ""
     ELSE SubSeq(p, 1, (CHOOSE i \in slashes : \A j \in slashes : j <= i) - 1)

\* The documents that have to precede document d.
Parents(d) ==
  LET c == d.catalog_name IN
    CASE d.type = "catalog" -> {}
      [] d.type = "schema" -> {Key("catalog", c)}
      [] d.type \in {"volume", "table"} -> {Key("schema", c \o "." \o d.schema_name)}
      [] d.type = "column" ->
           {Key("table", c \o "." \o d.schema_name \o "." \o d.table_name)}
      [] d.type \in {"file", "directory"} ->
           LET v == c \o "." \o d.schema_name \o "." \o d.volume_name IN
             {Key("volume", v)}
               \cup (IF ParentRel(d.file_path) = "" THEN {}
                     ELSE {Key("directory", v \o "/" \o ParentRel(d.file_path))})

\* Every parent some document of docs asks for stands in docs before each of
\* the documents that ask for it.
ParentsFirst(docs) ==
  LET asked == [i \in 1..Len(docs) |-> Parents(docs[i])] IN
    \A p \in UNION Range(asked) :
      \E j \in 1..Len(docs) :
        /\ KeyOf(docs[j]) = p
        /\ \A i \in 1..Len(docs) : p \in asked[i] => j < i

\* C16: in the documents of a walk every document's parent stands at an
\* earlier position: a Schema after its Catalog, a Volume or Table after its
\* Schema, a Column after its Table, a File or Directory after its Volume and
\* after the Directory document of the directory that contains it.
C16_ParentsFirst == \A r \in RunIds : ParentsFirst(documents[r])

\* C16 witness: a returned walk with a file two directories below its
\* volume and with a column.
C16_Witness ==
  \E r \in RunIds :
    /\ WalkReturned(r)
    /\ \E i \in 1..Len(documents[r]) :
         /\ documents[r][i].type = "file"
         /\ PathLevel(documents[r][i].file_path) = 3
    /\ \E i \in 1..Len(documents[r]) : documents[r][i].type = "column"

\* The path a directory-listing request asked for.
PathOf(request) == RemoveFirst(request.endpoint, "fs/directories")

\* The successful directory listings of run r.
Listings(r) ==
  {k \in 1..Len(calls[r]) : calls[r][k].kind = "directory" /\ calls[r][k].outcome = "ok"}

\* How many entries of the listing of path the entry loop has still to visit.
Pending(r, path) ==
  LET open == {i \in 1..Len(stack[r]) :
                 stack[r][i].kind = "files" /\ stack[r][i].path = path}
  IN IF open = {} THEN 0 ELSE Len(stack[r][CHOOSE i \in open : TRUE].todo)

\* The positions of the documents emitted for entry e of volume c.s.v.
EntryDocs(r, c, s, v, e) ==
  {i \in 1..Len(documents[r]) :
     /\ IsFileDoc(documents[r][i])
     /\ documents[r][i].catalog_name = c
     /\ documents[r][i].schema_name = s
     /\ documents[r][i].volume_name = v
     /\ documents[r][i].file_path = RelativePath(c, s, v, e.path)}

\* fetchVolumeFilesRecursive was called for path: the call is pending, or it
\* issued its listing request, or it returned at the depth limit.
Recursed(r, path) ==
  \/ \E i \in 1..Len(stack[r]) : stack[r][i].kind = "dir" /\ stack[r][i].path = path
  \/ \E k \in 1..Len(calls[r]) :
       calls[r][k].kind = "directory" /\ PathOf(calls[r][k]) = path
  \/ \E k \in 1..Len(logs[r]) :
       logs[r][k].event = "max_depth" /\ logs[r][k].subject = path

SizeAsClaimed(d, e) == "size" \in DOMAIN e /\ d.file_size = e.size
SizeOrDefault(d, e) == d.file_size = IF "size" \in DOMAIN e THEN e.size ELSE 0

\* Every entry of a successful directory listing that the entry loop has
\* visited has exactly one document, of the type its is_directory flag gives,
\* with the full name built from its relative path and a file_size that
\* satisfies SizeOk, and was recursed into iff it is a directory; an entry
\* not yet visited has no document and no recursion.
EntriesHandled(r, SizeOk(_, _)) ==
  \A k \in Listings(r) :
    LET q == calls[r][k]
        entries == DirectoryContents(world, PathOf(q))
        done == Len(entries) - Pending(r, PathOf(q))
    IN \A m \in 1..Len(entries) :
         LET e == entries[m]
             hits == EntryDocs(r, q.c, q.s, q.name, e)
         IN IF m <= done
              THEN /\ Cardinality(hits) = 1
                   /\ \A i \in hits :
                        /\ documents[r][i].type =
                             IF e.is_directory THEN "directory" ELSE "file"
                        /\ documents[r][i].full_name =
                             q.c \o "." \o q.s \o "." \o q.name \o "/"
                               \o RelativePath(q.c, q.s, q.name, e.path)
                        /\ SizeOk(documents[r][i], e)
                   /\ e.is_directory <=> Recursed(r, SubPath(e.path))
              ELSE hits = {} /\ ~Recursed(r, SubPath(e.path))

\* C17 (as claimed): one document per listed entry, typed by is_directory,
\* file_size equal to the entry's size, full_name the volume's full name, a
\* slash and the relative path; recursion iff the entry is a directory.
C17_EntryDocumentAsClaimed == \A r \in RunIds : EntriesHandled(r, SizeAsClaimed)

\* C17 (amended): the same, with file_size equal to the entry's size when the
\* entry carries one and 0 when it carries none.
C17_EntryDocument == \A r \in RunIds : EntriesHandled(r, SizeOrDefault)

\* C17 witness: the walk returned with the listing of landing handled: a.csv
\* of size 120, the directory sub that carries no size, and b.txt inside sub.
C17_Witness ==
  \E r \in RunIds :
    /\ WalkReturned(r)
    /\ Cardinality(Listings(r)) = 2
    /\ \E i, j, k \in 1..Len(documents[r]) :
         /\ documents[r][i].full_name = "sales.raw.landing/a.csv"
         /\ documents[r][i].file_size = 120
         /\ documents[r][j].full_name = "sales.raw.landing/sub"
         /\ documents[r][j].type = "directory"
         /\ documents[r][k].full_name = "sales.raw.landing/sub/b.txt"

\* The directory listings of run r that failed (404 or another error).
FailedListings(r) == {k \in 1..Len(calls[r]) : Failed(r, k, "directory")}

\* No document of run r is an entry at or below path of volume c.s.v.
NothingBelow(r, c, s, v, path) ==
  \A i \in 1..Len(documents[r]) :
    (/\ IsFileDoc(documents[r][i])
     /\ documents[r][i].catalog_name = c
     /\ documents[r][i].schema_name = s
     /\ documents[r][i].volume_name = v)
      => IndexOf(VolumePath(c, s, v) \o documents[r][i].file_path, path, 1) # 1

\* The entries listed after the directory whose listing (of path) failed: each
\* one the entry loop has passed has its document and, if a directory, its
\* recursive call.
SiblingsGoOn(r, path) ==
  \A j \in Listings(r) :
    LET q == calls[r][j]
        entries == DirectoryContents(world, PathOf(q))
        done == Len(entries) - Pending(r, PathOf(q))
    IN \A m \in 1..Len(entries) :
         (entries[m].is_directory /\ SubPath(entries[m].path) = path)
           => /\ m <= done
              /\ \A n \in (m + 1)..done :
                   /\ Cardinality(EntryDocs(r, q.c, q.s, q.name, entries[n])) = 1
                   /\ entries[n].is_directory
                        => Recursed(r, SubPath(entries[n].path))
              /\ WalkReturned(r) => done = Len(entries)

\* The state after a failed directory listing: it left no document, it is
\* logged (404 as a plain line, other errors as a warning), the run has no
\* error, and the walk is going on or has returned.
FailedListingContained(r) ==
  \A k \in FailedListings(r) :
    LET q == calls[r][k] IN
      /\ NothingBelow(r, q.c, q.s, q.name, PathOf(q))
      /\ \E n \in 1..Len(logs[r]) :
           logs[r][n] = IF q.outcome = "404" THEN Log("log", "path_404", PathOf(q))
                                              ELSE Log("warn", "path_error", PathOf(q))
      /\ (pc[r] = "walk" /\ error[r] = NULL) \/ WalkReturned(r)
      /\ SiblingsGoOn(r, PathOf(q))

\* The step in which a directory listing fails: the documents stay as they
\* are, nothing is thrown, and only the failed call ends (the loop that made
\* the call is still open, at its next element).
FailedListingStep(r) ==
  (/\ Len(calls'[r]) = Len(calls[r]) + 1
   /\ calls'[r][Len(calls'[r])].kind = "directory"
   /\ calls'[r][Len(calls'[r])].outcome # "ok")
    => /\ documents'[r] = documents[r]
       /\ pc'[r] = "walk" /\ error'[r] = NULL
       /\ stack'[r] = SubSeq(stack[r], 1, Len(stack[r]) - 1)
       /\ stack'[r] # <<>>
       /\ stack'[r][Len(stack'[r])].kind \in {"files", "volumes"}

\* C18: a failed listing of a directory (404 or any other error) contributes
\* no document and raises nothing; it ends only the call that made it: the
\* documents emitted before stay, and the entries listed after that directory
\* in its parent are still emitted and traversed.
C18_FailedListingEndsItsBranchOnly ==
  /\ [](\A r \in RunIds : FailedListingContained(r))
  /\ [][\A r \in RunIds : FailedListingStep(r)]_vars

\* C18 witness: the listing of directory a failed, the file a_b listed after
\* a has its document, and the walk returned.
C18_Witness ==
  \E r \in RunIds :
    /\ world.kind = "collide"
    /\ \E k \in FailedListings(r) : PathOf(calls[r][k]) = "/Volumes/c/s/v/a/"
    /\ \E i \in 1..Len(documents[r]) : documents[r][i].full_name = "c.s.v/a_b"
    /\ WalkReturned(r)

\* Sequence a is an initial part of sequence b.
IsPrefix(a, b) == Len(a) <= Len(b) /\ SubSeq(b, 1, Len(a)) = a

\* C19: during a walk the documents only grow: every step, the failure of a
\* schema, volume, table, column or directory listing included, leaves the
\* documents appended so far in place and unchanged, so the returned
\* sequence begins with the documents emitted before each failure.
C19_DocumentsOnlyGrow ==
  [][\A r \in RunIds : IsPrefix(documents[r], documents'[r])]_vars

\* C19 witness: the walk returned more than five documents although a table
\* listing failed after a directory listing had failed.
C19_Witness ==
  \E r \in RunIds :
    /\ pc[r] = "index"
    /\ \E j, k \in 1..Len(calls[r]) :
         j < k /\ Failed(r, j, "directory") /\ Failed(r, k, "tables")
    /\ Len(documents[r]) > 4

\* In this step run r made the closing call with 'failed' and its UPDATE was
\* executed.
FailingCloseExecuted(r) ==
  /\ Len(closes'[r]) = Len(closes[r]) + 1
  /\ closes'[r][Len(closes'[r])].status = "failed"
  /\ closes'[r][Len(closes'[r])].outcome = "ok"

\* C20: the failing close of a job sets status 'failed', completed_at to the
\* current time and error_message to the message of the failure, and leaves
\* every other column, records_processed included, and every other row as it
\* was; records_processed was 0 before, so a failed job has 0 records
\* processed, also when batches had been written.
C20_FailingClose ==
  /\ [][\A r \in RunIds :
          FailingCloseExecuted(r)
            => /\ jobs[jobId[r]].records_processed = 0
               /\ jobs' = [jobs EXCEPT ![jobId[r]] =
                             [@ EXCEPT !.status = "failed", !.completed_at = "now",
                                       !.error_message = error[r]]]]_vars
  /\ [](\A r \in RunIds :
          (HasJob(r) /\ JobOf(r).status = "failed")
            => /\ JobOf(r).records_processed = 0
               /\ JobOf(r).completed_at = "now"
               /\ JobOf(r).error_message = error[r]
               /\ error[r] # NULL)

\* C20 witness: a job closed as failed by a batch failure after the run had
\* written two batches.
C20_Witness ==
  \E r \in RunIds :
    /\ HasJob(r) /\ JobOf(r).status = "failed"
    /\ JobOf(r).error_message = BatchMessage
    /\ Len(sent[r]) = 2
    /\ JobOf(r).records_processed = 0

\* The successful schema listings of run r.
SchemaListings(r) ==
  {k \in 1..Len(calls[r]) : calls[r][k].kind = "schemas" /\ calls[r][k].outcome = "ok"}

\* How many schemas of catalog c the schema loop has still to visit.
PendingSchemas(r, c) ==
  LET open == {i \in 1..Len(stack[r]) :
                 stack[r][i].kind = "schemas" /\ stack[r][i].c = c}
  IN IF open = {} THEN 0 ELSE Len(stack[r][CHOOSE i \in open : TRUE].todo)

\* The positions of the Schema documents of schema c.s.
SchemaDocs(r, c, s) ==
  {i \in 1..Len(documents[r]) :
     /\ documents[r][i].type = "schema"
     /\ documents[r][i].catalog_name = c
     /\ documents[r][i].schema_name = s}

\* C21: of the schemas returned for a retained catalog, information_schema
\* gets no Schema document and no volume, table, column or directory request;
\* every other schema the loop has visited has exactly one Schema document
\* and its volume listing requested.
C21_InformationSchemaSkipped ==
  \A r \in RunIds :
    \A k \in SchemaListings(r) :
      LET c == calls[r][k].c
          schemas == Schemas(world, c)
          done == Len(schemas) - PendingSchemas(r, c)
      IN \A m \in 1..Len(schemas) :
           IF schemas[m] = "information_schema"
             THEN /\ SchemaDocs(r, c, schemas[m]) = {}
                  /\ \A j \in 1..Len(calls[r]) :
                       ~(calls[r][j].c = c /\ calls[r][j].s = schemas[m])
                  /\ \A i \in 1..Len(documents[r]) :
                       ~(/\ documents[r][i].catalog_name = c
                         /\ "schema_name" \in DOMAIN documents[r][i]
                         /\ documents[r][i].schema_name = schemas[m])
             ELSE /\ Cardinality(SchemaDocs(r, c, schemas[m])) = (IF m <= done THEN 1 ELSE 0)
                  /\ m <= done
                       => \E j \in 1..Len(calls[r]) :
                            /\ calls[r][j].kind = "volumes"
                            /\ calls[r][j].c = c /\ calls[r][j].s = schemas[m]

\* C21 witness: the schemas of sales, information_schema and raw, were both
\* visited; raw has its document and its tables, and the walk returned.
C21_Witness ==
  \E r \in RunIds :
    /\ WalkReturned(r)
    /\ \E k \in SchemaListings(r) :
         Schemas(world, calls[r][k].c) = <<"information_schema", "raw">>
    /\ Emitted(r, SchemaDoc("sales", "raw"))
    /\ Emitted(r, TableDoc("sales", "raw", "orders"))
    /\ \E n \in 1..Len(logs[r]) : logs[r][n].event = "skip_schema"

\* s consists only of characters of [A-Za-z0-9_-].
IsSafe(s) == \A i \in 1..Len(s) : CharAt(s, i) \in SafeChars

\* C22 (as claimed): the id of every emitted document, of every entity type,
\* consists only of characters of [A-Za-z0-9_-].
C22_SafeIds ==
  \A r \in RunIds :
    \A i \in 1..Len(documents[r]) : IsSafe(documents[r][i].id)

\* The ids of the File and Directory documents, the only ones the code
\* passes through the replacement, are safe.
FileIdsSafe ==
  \A r \in RunIds :
    \A i \in 1..Len(documents[r]) :
      IsFileDoc(documents[r][i]) => IsSafe(documents[r][i].id)

\* What formatTimestamp is said to return for a source timestamp: the ISO
\* rendering of a number, a string unchanged, the current time when absent.
TimestampAsClaimed(v) ==
  CASE v.type = "number" -> ToISOString(v.value)
    [] v.type = "string" -> v.value
    [] OTHER -> Now

\* Every File or Directory document carries, in created_at, updated_at and
\* last_modified, the value Expected gives for the modification_time of its
\* entry, for the entries Applies is true of.
TimestampsAre(r, Expected(_), Applies(_)) ==
  \A k \in Listings(r) :
    LET q == calls[r][k]
        entries == DirectoryContents(world, PathOf(q))
    IN \A m \in 1..Len(entries) :
         Applies(ModificationTime(entries[m]))
           => \A i \in EntryDocs(r, q.c, q.s, q.name, entries[m]) :
                /\ documents[r][i].last_modified = Expected(ModificationTime(entries[m]))
                /\ documents[r][i].created_at = documents[r][i].last_modified
                /\ documents[r][i].updated_at = documents[r][i].last_modified

AnyTimestamp(v) == TRUE
Truthy(v) == ~Falsy(v)

\* C23 (as claimed): formatTimestamp renders every number, 0 included, as the
\* ISO-8601 form of that epoch-millisecond value, returns every string, the
\* empty one included, unchanged, and gives the current time only for an
\* absent timestamp.
C23_FormatTimestamp == \A r \in RunIds : TimestampsAre(r, TimestampAsClaimed, AnyTimestamp)

\* The same for the timestamps other than 0 and the empty string.
FormatTimestampWhenTruthy == \A r \in RunIds : TimestampsAre(r, TimestampAsClaimed, Truthy)

\* The endpoints (path and parameters) run r requested, in order.
Endpoints(r) == [k \in 1..Len(calls[r]) |-> calls[r][k].endpoint]

\* The console lines by which a failed listing below the catalog listing
\* comes to light.
FailureEvents ==
  {"schemas_error", "volumes_error", "tables_error", "path_404", "path_error",
   "columns_404", "columns_error"}

\* C24: no request is retried: within one run no endpoint is requested
\* twice, and every failed request (404, or 401, 403 and the other errors)
\* has failed towards its caller: the failed catalog listing is the error
\* run() caught and the last request made, each failed deeper listing is one
\* log line of its catch block.
C24_NoRetry ==
  \A r \in RunIds :
    /\ NoDup(Endpoints(r))
    /\ \A k \in 1..Len(calls[r]) :
         Failed(r, k, "catalogs")
           => k = Len(calls[r]) /\ error[r] = CatalogsMessage(calls[r][k].outcome)
    /\ Cardinality({k \in 1..Len(calls[r]) :
                     calls[r][k].kind # "catalogs" /\ calls[r][k].outcome # "ok"})
         = Cardinality({n \in 1..Len(logs[r]) : logs[r][n].event \in FailureEvents})

\* C24 witness: a run that ended after three of its requests had failed,
\* one of them with an error other than 404.
C24_Witness ==
  \E r \in RunIds :
    /\ Terminated(r)
    /\ Cardinality({k \in 1..Len(calls[r]) : calls[r][k].outcome # "ok"}) = 3
    /\ \E k \in 1..Len(calls[r]) : calls[r][k].outcome = "error"
    /\ Len(calls[r]) > 5

\* How many of the documents of run r the index holds.
Held(r) == Cardinality({i \in 1..Len(documents[r]) : documents[r][i] \in index})

\* Run r is recorded 'completed' with a count the index falls short of.
Shortfall(r) ==
  /\ HasJob(r) /\ JobOf(r).status = "completed"
  /\ Held(r) < JobOf(r).records_processed

\* Run q has cleared the index.
HasCleared(q) == HasJob(q) /\ pc[q] \notin {"idle", "create", "clear"} /\ error[q] # ClearMessage

\* C25: no lock protects the index: a run that stands before its index clear
\* can always issue it, whatever another run is doing, batch writes included;
\* and a run recorded 'completed' with more records than the index holds of
\* its documents is found only where another run has cleared the index (the
\* state itself is the witness below).
C25_NoIndexLock ==
  /\ \A q \in RunIds : pc[q] = "clear" => ENABLED ClearIndex(q)
  /\ \A r \in RunIds :
       Shortfall(r) => \E q \in RunIds \ {r} : HasCleared(q)

\* C25 witness: run r is recorded 'completed' with three records processed
\* and the index, cleared by the other run after r's batch write, holds none
\* of its documents.
C25_Witness ==
  \E r \in RunIds :
    /\ Shortfall(r)
    /\ JobOf(r).records_processed = 3
    /\ Held(r) = 0
    /\ \E q \in RunIds \ {r} : HasCleared(q) /\ sent[q] = <<>>

\* C26 (as claimed, its part about the end of a run): no run that created a
\* job ends with the job row still 'running': when the run has ended the row
\* is 'completed' or 'failed', also when the closing update itself failed.
C26_JobEndsTerminal ==
  \A r \in RunIds :
    (HasJob(r) /\ Terminated(r)) => JobOf(r).status \in {"completed", "failed"}

\* C27: in a single run, whenever the job row is 'completed' the ids in the
\* index are exactly the ids of the documents the walk of that run returned:
\* what the index held before the run is gone and every returned document's
\* id is present.
C27_IndexMatchesWalk ==
  \A r \in scheduled :
    (HasJob(r) /\ JobOf(r).status = "completed")
      => /\ IdsOf(index) = Range(Ids(documents[r]))
         /\ OldDoc.id \notin IdsOf(index)
         /\ WalkReturned(r)

\* C27 witness: a completed run that wrote three batches into an index that
\* held a document of an earlier run.
C27_Witness ==
  \E r \in scheduled :
    /\ HasJob(r) /\ JobOf(r).status = "completed"
    /\ Len(sent[r]) = 3
    /\ Cardinality(index) = Len(documents[r])

\* C28: from its successful index clear until its first batch write a run
\* finds the index without documents; when the catalog listing fails no
\* batch is ever written, the index stays empty to the end of the run, and a
\* job closed as 'failed' for that failure stands next to an empty index:
\* what the previous run had indexed is gone.
C28_EmptyUntilFirstBatch ==
  \A r \in scheduled :
    /\ (HasCleared(r) /\ sent[r] = <<>>) => index = {}
    /\ (HasJob(r) /\ error[r] \in {CatalogsMessage(o) : o \in HttpOutcomes})
         => /\ sent[r] = <<>> /\ documents[r] = <<>>
            /\ index = {}
            /\ pc[r] \in {"catch", "exit1", "rejected"}
    /\ (HasJob(r) /\ JobOf(r).status = "failed"
          /\ JobOf(r).error_message \in {CatalogsMessage(o) : o \in HttpOutcomes})
         => index = {} /\ Terminated(r)

\* C28 witness: the run ended after a failed catalog listing; its job is
\* 'failed' and the index, which held a document before, is empty.
C28_Witness ==
  \E r \in scheduled :
    /\ pc[r] = "exit1"
    /\ HasJob(r) /\ JobOf(r).status = "failed"
    /\ JobOf(r).error_message = CatalogsMessage("error")
    /\ index = {}

\* createIndexingJob of run r failed: run() caught an error with no job id.
CreateFailed(r) == ~HasJob(r) /\ error[r] # NULL

\* C29: when createIndexingJob fails the run clears nothing, requests
\* nothing, writes no batch and makes no closing call: the index and the job
\* table are what they were before the run, and the run ends through
\* process.exit(1).
C29_FailedCreateTouchesNothing ==
  \A r \in scheduled :
    CreateFailed(r)
      => /\ error[r] \in {DbConnectMessage, DbExecuteMessage}
         /\ index = {OldDoc}
         /\ jobs = << OldJobRow >>
         /\ calls[r] = <<>> /\ sent[r] = <<>> /\ closes[r] = <<>>
         /\ documents[r] = <<>>
         /\ pc[r] \in {"catch", "exit1"}

\* C29 witness: the run has ended after the INSERT was rejected.
C29_Witness ==
  \E r \in scheduled :
    /\ CreateFailed(r)
    /\ error[r] = DbExecuteMessage
    /\ pc[r] = "exit1"

\* The columns of one job row agree with its status.
RowCoherent(row) ==
  /\ row.job_type = "unity_catalog_sync"
  /\ row.status \in {"running", "completed", "failed"}
  /\ (row.completed_at = NULL) <=> (row.status = "running")
  /\ row.error_message # NULL => row.status = "failed"
  /\ row.records_processed # 0 => row.status = "completed"

\* Every run that has a job id holds the id of a row of the table, and no
\* two runs hold the same id; every closing call of a run names that id.
RowsOwned ==
  /\ \A r \in RunIds : HasJob(r) => jobId[r] \in DOMAIN jobs /\ JobOf(r).id = jobId[r]
  /\ \A r, q \in RunIds : (HasJob(r) /\ jobId[r] = jobId[q]) => r = q
  /\ \A r \in RunIds : \A k \in 1..Len(closes[r]) :
       HasJob(r) /\ closes[r][k].jobId = jobId[r]

\* One step of the job table: a run takes as its id the id of the row its own
\* INSERT added, and a closing call of run r changes no row but the one of
\* that id; no step removes a row or changes one without a closing call.
RowsStep ==
  /\ \A r \in RunIds :
       jobId'[r] # jobId[r]
         => /\ jobId[r] = 0
            /\ jobs' = Append(jobs, NewJobRow(jobId'[r]))
            /\ jobId'[r] = Len(jobs) + 1
  /\ \A k \in DOMAIN jobs :
       /\ k \in DOMAIN jobs'
       /\ jobs'[k] # jobs[k]
            => \E r \in RunIds :
                 /\ jobId[r] = k
                 /\ Len(closes'[r]) = Len(closes[r]) + 1
                 /\ \A q \in RunIds \ {r} : closes'[q] = closes[q]

\* C30: every row of the job table is coherent in every reachable state
\* (job_type 'unity_catalog_sync', status never 'pending', completed_at null
\* exactly when 'running', error_message set only when 'failed',
\* records_processed non-zero only when 'completed'), and a run updates only
\* the row whose id its own createIndexingJob returned, also when two runs
\* execute concurrently.
C30_JobRowsCoherent ==
  /\ [](\A k \in DOMAIN jobs : RowCoherent(jobs[k]))
  /\ []RowsOwned
  /\ [][RowsStep]_vars

\* C30 witness: two concurrent runs have both closed their jobs, one as
\* 'completed' with documents counted and one as 'failed'.
C30_Witness ==
  \E r, q \in scheduled :
    /\ r # q /\ HasJob(r) /\ HasJob(q)
    /\ JobOf(r).status = "completed" /\ JobOf(r).records_processed # 0
    /\ JobOf(q).status = "failed" /\ JobOf(q).error_message # NULL
    /\ Terminated(r) /\ Terminated(q)

====
